---------------------------- MODULE Spec2Model ----------------------------
(***************************************************************************)
(* A model of the document utilities of the Word document server           *)
(* (word_document_server/utils/document_utils.py and                       *)
(* extended_document_utils.py).                                            *)
(*                                                                         *)
(* The file at doc_path is the only persistent state.  Every public        *)
(* operation opens it, edits the body in memory and saves it.  One action  *)
(* of the model is one call of one public operation: it reads `disk`,      *)
(* computes what the handler computes and writes `disk` where the handler  *)
(* calls doc.save.                                                         *)
(*                                                                         *)
(* A body is the sequence of the children of <w:body>: paragraphs (w:p),   *)
(* tables (w:tbl) and the trailing section properties (w:sectPr).  A text  *)
(* is a sequence of one-character strings.  A paragraph of the model holds *)
(* one run (none when its text is empty) and no tab or break elements, so  *)
(* the text python-docx reports (para.text) and the concatenation of the   *)
(* w:t nodes are the same sequence.  Texts hold no asterisk.  Saving       *)
(* always succeeds; opening fails on a file that is not a package.         *)
(***************************************************************************)
EXTENDS Integers, Sequences, FiniteSets, TLC

VARIABLES
    pc,      \* "idle" before the call, "done" after it returned or raised
    disk,    \* the file at doc_path: [state, body]
    before,  \* the file as it was when the call started
    call,    \* the operation called and its arguments
    result,  \* what the call returned, with the handler's local values
    mem      \* what a call in progress holds in memory (the runs being
             \* replaced, the document being searched, the call before)

vars == <<pc, disk, before, call, result, mem>>

-----------------------------------------------------------------------------
(* Bounds of the model *)

\* the longest body (without the section properties) a call of a
\* text-resolving operation starts from
MaxLen == 3

\* the longest body (without the section properties) a call of an index-based
\* operation starts from
MaxIndexLen == 4

-----------------------------------------------------------------------------
(* Characters and texts *)

NBSP == "~"                      \* stands for U+00A0

tS == <<"s">>
tXS == <<"x", " ", "s">>
tC == <<"c">>
tE == <<"e">>
tZ == <<"z", "z">>
tN == <<"n">>
tEmpty == <<>>

\* unicodedata.normalize("NFKC", s): U+00A0 folds to U+0020
NFKC(s) == [i \in DOMAIN s |-> IF s[i] = NBSP THEN " " ELSE s[i]]

\* the characters \s matches and str.strip removes
IsSpace(c) == c \in {" ", "\t", NBSP}

RECURSIVE DropSpaces(_)
DropSpaces(s) ==
    IF s = <<>> THEN <<>>
    ELSE IF IsSpace(Head(s)) THEN DropSpaces(Tail(s)) ELSE s

\* re.sub(r'\s+', ' ', s)
RECURSIVE CollapseSpaces(_)
CollapseSpaces(s) ==
    IF s = <<>> THEN <<>>
    ELSE IF IsSpace(Head(s))
         THEN <<" ">> \o CollapseSpaces(DropSpaces(Tail(s)))
         ELSE <<Head(s)>> \o CollapseSpaces(Tail(s))

RECURSIVE DropTrailingSpaces(_)
DropTrailingSpaces(s) ==
    IF s = <<>> THEN <<>>
    ELSE IF IsSpace(s[Len(s)]) THEN DropTrailingSpaces(SubSeq(s, 1, Len(s) - 1))
         ELSE s

\* str.strip()
Strip(s) == DropTrailingSpaces(DropSpaces(s))

\* a faulty variant of _normalize_text: the step that collapses runs of
\* white space is missing
NormalizeTextNoCollapse(s) == Strip(NFKC(s))

\* _normalize_text
NormalizeText(s) == Strip(CollapseSpaces(NFKC(s)))

LowerChar(c) ==
    CASE c = "S" -> "s"
      [] c = "X" -> "x"
      [] c = "C" -> "c"
      [] c = "E" -> "e"
      [] OTHER -> c

\* str.lower()
Lower(s) == [i \in DOMAIN s |-> LowerChar(s[i])]

\* needle in hay
Contains(hay, needle) ==
    \E i \in 0..(Len(hay) - Len(needle)) :
        SubSeq(hay, i + 1, i + Len(needle)) = needle

-----------------------------------------------------------------------------
(* Styles *)

\* the paragraph styles the document defines
DocStyles == {"Normal", "Heading 1", "Heading 2", "TOC 1", "List Paragraph"}

\* doc.styles[name] raises KeyError for any other name
StyleKnown(name) == name \in DocStyles

\* name.upper().startswith("TOC")   (is_toc_paragraph)
\* name.lower().startswith("toc")   (the insert operations)
IsTocStyle(name) == name \in {"TOC 1"}

\* name.lower().startswith("heading")   (is_heading_paragraph)
IsHeadingStyle(name) == name \in {"Heading 1", "Heading 2"}

\* name.lower().startswith(('heading', 'título', 'toc'))
IsBlockEndStyle(name) == name \in {"Heading 1", "Heading 2", "TOC 1"}

\* name.startswith("Heading")   (get_section_paragraphs)
StartsWithHeading(name) == name \in {"Heading 1", "Heading 2"}

\* int(name.split(" ")[1]), 1 when that fails
HeadingLevel(name) ==
    CASE name = "Heading 1" -> 1
      [] name = "Heading 2" -> 2
      [] OTHER -> 1

-----------------------------------------------------------------------------
(* Body elements *)

\* fmt is the character formatting of the paragraph's run: "plain", or what
\* its w:rPr holds ("bold": w:b, "boldoff": w:b with w:val="0", "caps":
\* w:caps, "size": w:sz); num is the numbering definition of the paragraph
\* (0: none)
Para(text, style, fmt) ==
    [kind |-> "p", text |-> text, style |-> style, fmt |-> fmt, num |-> 0]
Tbl == [kind |-> "tbl", text |-> tC, style |-> "", fmt |-> "plain", num |-> 0]
SectPr == [kind |-> "sect", text |-> tEmpty, style |-> "", fmt |-> "plain", num |-> 0]

\* doc.paragraphs: the w:p children of the body, in order
IsPara(el) == el.kind = "p"
Paragraphs(body) == SelectSeq(body, IsPara)
NumParas(body) == Len(Paragraphs(body))

\* the position in the body of doc.paragraphs[k] (k counts from 0)
ParaPos(body, k) ==
    CHOOSE i \in DOMAIN body :
        /\ body[i].kind = "p"
        /\ Cardinality({j \in 1..(i - 1) : body[j].kind = "p"}) = k

\* parent.remove(element)
RemoveAt(body, i) == SubSeq(body, 1, i - 1) \o SubSeq(body, i + 1, Len(body))

\* element.addnext(new) for the element at position i; i = 0 is body.insert(0, new)
InsertAfter(body, i, el) ==
    SubSeq(body, 1, i) \o <<el>> \o SubSeq(body, i + 1, Len(body))

\* doc.add_paragraph(text, style): one run when text is not empty
NewPara(text, style) == Para(text, style, "plain")

\* the new paragraphs of a call, each with the style resolved for the call
NewParas(texts, style) == [i \in DOMAIN texts |-> NewPara(texts[i], style)]


-----------------------------------------------------------------------------
(* Files and results *)

Saved(body) == [state |-> "ok", body |-> body]

\* what a call hands back: status is "ok" (a success message), "fail" (a
\* failure message) or "raised" (a fault left the function); msg is the
\* message by its fixed words; the other fields are the handler's locals
NoResult ==
    [status |-> "none", msg |-> "", removed |-> 0, inserted |-> 0,
     style |-> "", order |-> <<>>, start |-> -1, end |-> -1,
     delstart |-> -1, anchor |-> -1, data |-> <<>>]

Ok(msg) == [NoResult EXCEPT !.status = "ok", !.msg = msg]
Fail(msg) == [NoResult EXCEPT !.status = "fail", !.msg = msg]
Raised(msg) == [NoResult EXCEPT !.status = "raised", !.msg = msg]

\* the call changed nothing on disk and returned r
Ret(d, r) == [disk |-> d, result |-> r]

\* the messages that contain "error" or "invalid" (in any letter case)
Tagged(msg) ==
    msg \in {"Error: Document does not exist",
             "Error: start_index must be >= 0",
             "Error: end_index exceeds paragraph count",
             "Error: start_index > end_index",
             "Error: Failed to delete paragraph range",
             "Invalid range",
             "Invalid paragraph index",
             "Invalid target_paragraph_index"}

-----------------------------------------------------------------------------
(* delete_paragraph_range *)

\* a faulty variant of the removal loop: range(end_index, start_index, -1)
\* leaves the paragraph at start_index in place
RECURSIVE RemoveRangeDescShort(_, _, _)
RemoveRangeDescShort(body, i, start) ==
    IF i <= start THEN [body |-> body, order |-> <<>>]
    ELSE LET rest == RemoveRangeDescShort(RemoveAt(body, ParaPos(body, i)), i - 1, start)
         IN  [body |-> rest.body, order |-> <<i>> \o rest.order]

\* for i in range(end_index, start_index - 1, -1): remove doc.paragraphs[i]
\* yields the body left and the indices in the order they were removed
RECURSIVE RemoveRangeDesc(_, _, _)
RemoveRangeDesc(body, i, start) ==
    IF i < start THEN [body |-> body, order |-> <<>>]
    ELSE LET rest == RemoveRangeDesc(RemoveAt(body, ParaPos(body, i)), i - 1, start)
         IN  [body |-> rest.body, order |-> <<i>> \o rest.order]

\* a faulty variant of the bounds checks: the test start_index > end_index
\* is missing
DeleteRangeErrorNoOrder(total, start, end) ==
    IF start < 0 THEN "Error: start_index must be >= 0"
    ELSE IF end >= total THEN "Error: end_index exceeds paragraph count"
    ELSE ""

\* the three bounds checks of delete_paragraph_range, "" when all pass
DeleteRangeError(total, start, end) ==
    IF start < 0 THEN "Error: start_index must be >= 0"
    ELSE IF end >= total THEN "Error: end_index exceeds paragraph count"
    ELSE IF start > end THEN "Error: start_index > end_index"
    ELSE ""

delete_paragraph_range(d, start, end) ==
    IF d.state = "missing" THEN Ret(d, Fail("Error: Document does not exist"))
    ELSE IF d.state = "corrupt"
    THEN Ret(d, Fail("Error: Failed to delete paragraph range"))
    ELSE LET total == NumParas(d.body)
             err == DeleteRangeError(total, start, end)
         IN  IF err # "" THEN Ret(d, Fail(err))
             ELSE LET r == RemoveRangeDesc(d.body, end, start)
                  IN  [disk |-> Saved(r.body),
                       result |-> [Ok("Successfully deleted") EXCEPT
                                      !.removed = end - start + 1,
                                      !.order = r.order]]

-----------------------------------------------------------------------------
(* replace_paragraph_range *)

\* start_index < 0 or end_index >= total or start_index > end_index
InvalidRange(total, start, end) == start < 0 \/ end >= total \/ start > end

\* a faulty variant of the style choice: preserve_style is tested before the
\* explicit style
StyleToUsePreserveFirst(body, start, style, preserve) ==
    IF preserve THEN Paragraphs(body)[start + 1].style
    ELSE IF style # "" THEN style
    ELSE "Normal"

\* explicit style, else the style of the paragraph at start_index when
\* preserve_style, else "Normal"
StyleToUse(body, start, style, preserve) ==
    IF style # "" THEN style
    ELSE IF preserve THEN Paragraphs(body)[start + 1].style
    ELSE "Normal"

\* a faulty variant of the insertion loop: every new paragraph goes after
\* the anchor, so the last one inserted comes first
RECURSIVE InsertChainAtAnchor(_, _, _)
InsertChainAtAnchor(body, prev, els) ==
    IF els = <<>> THEN body
    ELSE InsertChainAtAnchor(InsertAfter(body, prev, Head(els)), prev, Tail(els))

\* the insertion loop: each new paragraph goes after the previous one
\* (prev = 0: body.insert(0, ...)), which then becomes the previous one
RECURSIVE InsertChain(_, _, _)
InsertChain(body, prev, els) ==
    IF els = <<>> THEN body
    ELSE InsertChain(InsertAfter(body, prev, Head(els)), prev + 1, Tail(els))

replace_paragraph_range(d, start, end, new, style, preserve) ==
    IF d.state = "missing" THEN Ret(d, Fail("Document does not exist"))
    ELSE IF d.state = "corrupt"
    THEN Ret(d, Fail("Failed to replace paragraph range"))
    ELSE LET total == NumParas(d.body) IN
         IF InvalidRange(total, start, end) THEN Ret(d, Fail("Invalid range"))
         ELSE LET style_to_use == StyleToUse(d.body, start, style, preserve)
                  anchor == IF start > 0 THEN ParaPos(d.body, start - 1) ELSE 0
                  r == RemoveRangeDesc(d.body, end, start)
              IN  IF new # <<>> /\ ~StyleKnown(style_to_use)
                  THEN Ret(d, Fail("Failed to replace paragraph range"))
                  ELSE [disk |-> Saved(InsertChain(r.body, anchor,
                                                   NewParas(new, style_to_use))),
                        result |-> [Ok("Replaced") EXCEPT
                                       !.removed = end - start + 1,
                                       !.inserted = Len(new),
                                       !.style = style_to_use,
                                       !.order = r.order]]

-----------------------------------------------------------------------------
(* replace_paragraph_text *)

\* _parse_markdown_runs on a text without asterisks: one plain run
ParseMarkdownRuns(text) == <<[text |-> text, bold |-> FALSE, italic |-> FALSE]>>

\* a faulty variant of the style step: the style is left as it was
StyleAfterReplaceKeep(old_style, preserve) == old_style

\* if preserve_style and old_style: para.style = old_style
\* elif not preserve_style: para.style = doc.styles["Normal"]
StyleAfterReplace(old_style, preserve) == IF preserve THEN old_style ELSE "Normal"

replace_paragraph_text(d, index, new_text, preserve, parse_markdown) ==
    IF d.state = "missing" THEN Ret(d, Fail("Document does not exist"))
    ELSE IF d.state = "corrupt" THEN Ret(d, Fail("Failed to replace paragraph"))
    ELSE IF index < 0 \/ index >= NumParas(d.body)
    THEN Ret(d, Fail("Invalid paragraph index"))
    ELSE LET pos == ParaPos(d.body, index)
             old_style == d.body[pos].style
             runs == IF parse_markdown THEN ParseMarkdownRuns(new_text)
                     ELSE <<[text |-> new_text, bold |-> FALSE, italic |-> FALSE]>>
             para == [d.body[pos] EXCEPT
                        !.text = runs[1].text,
                        !.fmt = IF runs[1].bold THEN "bold" ELSE "plain",
                        !.style = StyleAfterReplace(old_style, preserve)]
         IN  [disk |-> Saved([d.body EXCEPT ![pos] = para]),
              result |-> Ok("Paragraph replaced successfully")]

-----------------------------------------------------------------------------
(* The insert operations *)

\* the least element of a set of indices, -1 for the empty set
FirstOf(S) == IF S = {} THEN -1 ELSE CHOOSE i \in S : \A j \in S : i <= j

\* the text search of the insert operations: the first paragraph that is not
\* TOC-styled and whose text holds target_text (as given), -1 when none
FindTargetByText(body, target_text) ==
    LET paras == Paragraphs(body)
    IN  FirstOf({k \in 0..(Len(paras) - 1) :
                    /\ ~IsTocStyle(paras[k + 1].style)
                    /\ target_text # <<>>
                    /\ Contains(paras[k + 1].text, target_text)})

\* a faulty variant of the placement: addnext whatever the position
PlaceNearAlwaysAfter(body, pos, position, el) == InsertAfter(body, pos, el)

\* para._element.addprevious(new) / para._element.addnext(new)
PlaceNear(body, pos, position, el) ==
    IF position = "before" THEN InsertAfter(body, pos - 1, el)
    ELSE InsertAfter(body, pos, el)

\* the part the three insert operations share: "" and the paragraph index
\* of the target, or the failure message
ResolveTarget(body, byIndex, target_text, target_index) ==
    IF byIndex
    THEN IF target_index < 0 \/ target_index >= NumParas(body)
         THEN [msg |-> "Invalid target_paragraph_index", idx |-> -1]
         ELSE [msg |-> "", idx |-> target_index]
    ELSE LET k == FindTargetByText(body, target_text)
         IN  IF k < 0 THEN [msg |-> "Target paragraph not found", idx |-> -1]
             ELSE [msg |-> "", idx |-> k]

insert_header_near_text(d, byIndex, target_text, target_index, header_title, position, header_style) ==
    IF d.state = "missing" THEN Ret(d, Fail("Document does not exist"))
    ELSE IF d.state = "corrupt" THEN Ret(d, Fail("Failed to insert header"))
    ELSE LET t == ResolveTarget(d.body, byIndex, target_text, target_index) IN
         IF t.msg # "" THEN Ret(d, Fail(t.msg))
         ELSE IF ~StyleKnown(header_style) THEN Ret(d, Fail("Failed to insert header"))
         ELSE [disk |-> Saved(PlaceNear(d.body, ParaPos(d.body, t.idx), position,
                                        NewPara(header_title, header_style))),
               result |-> [Ok("Header inserted") EXCEPT
                              !.inserted = 1, !.style = header_style,
                              !.anchor = t.idx]]

\* what _copy_run_formatting carries over: bold (set or explicitly off) and
\* the font size, name and colour, but not w:caps
CopiedFmt(fmt) == IF fmt \in {"bold", "boldoff", "size"} THEN fmt ELSE "plain"

\* _copy_run_formatting(source_para.runs[0], new_para.runs[0]), done when
\* the index is in range of doc.paragraphs (which by then ends with the new
\* paragraph) and both paragraphs have a run
CopyFormatting(body, new_para, copy_style_from_index) ==
    LET paras == Paragraphs(body) \o <<new_para>>
    IN  IF /\ 0 <= copy_style_from_index
           /\ copy_style_from_index < Len(paras)
           /\ paras[copy_style_from_index + 1].text # <<>>
           /\ new_para.text # <<>>
        THEN [new_para EXCEPT !.fmt = CopiedFmt(paras[copy_style_from_index + 1].fmt)]
        ELSE new_para

insert_line_or_paragraph_near_text(d, byIndex, target_text, target_index, line_text, position, line_style, copy_style_from_index) ==
    IF d.state = "missing" THEN Ret(d, Fail("Document does not exist"))
    ELSE IF d.state = "corrupt" THEN Ret(d, Fail("Failed to insert line/paragraph"))
    ELSE LET t == ResolveTarget(d.body, byIndex, target_text, target_index) IN
         IF t.msg # "" THEN Ret(d, Fail(t.msg))
         ELSE LET pos == ParaPos(d.body, t.idx)
                  style == IF line_style # "" THEN line_style ELSE d.body[pos].style
              IN  IF ~StyleKnown(style)
                  THEN Ret(d, Fail("Failed to insert line/paragraph"))
                  ELSE [disk |-> Saved(PlaceNear(d.body, pos, position,
                                    CopyFormatting(d.body, NewPara(line_text, style),
                                                   copy_style_from_index))),
                        result |-> [Ok("Line/paragraph inserted") EXCEPT
                                       !.inserted = 1, !.style = style,
                                       !.anchor = t.idx]]

\* the first of 'List Paragraph', 'ListParagraph', 'Normal' the document has
ListStyle ==
    IF StyleKnown("List Paragraph") THEN "List Paragraph"
    ELSE IF StyleKnown("ListParagraph") THEN "ListParagraph"
    ELSE "Normal"

\* add_bullet_numbering(p, num_id, level = 0) on a new list paragraph
ListItem(text, num_id) == [NewPara(text, ListStyle) EXCEPT !.num = num_id]

\* for p in reversed(new_paras): addprevious(p) / addnext(p), the target
\* being at position pos all along (addprevious moves it one to the right)
RECURSIVE PlaceReversed(_, _, _, _)
PlaceReversed(body, pos, position, els) ==
    IF els = <<>> THEN body
    ELSE LET last == els[Len(els)]
             rest == SubSeq(els, 1, Len(els) - 1)
         IN  IF position = "before"
             THEN PlaceReversed(InsertAfter(body, pos - 1, last), pos + 1,
                                position, rest)
             ELSE PlaceReversed(InsertAfter(body, pos, last), pos, position, rest)

insert_numbered_list_near_text(d, byIndex, target_text, target_index, list_items, position, bullet_type) ==
    IF d.state = "missing" THEN Ret(d, Fail("Document does not exist"))
    ELSE IF d.state = "corrupt" THEN Ret(d, Fail("Failed to insert numbered list"))
    ELSE LET t == ResolveTarget(d.body, byIndex, target_text, target_index) IN
         IF t.msg # "" THEN Ret(d, Fail(t.msg))
         ELSE LET num_id == IF bullet_type = "bullet" THEN 1 ELSE 2
                  new_paras == [i \in DOMAIN list_items |->
                                   ListItem(list_items[i], num_id)]
              IN  [disk |-> Saved(PlaceReversed(d.body, ParaPos(d.body, t.idx),
                                                position, new_paras)),
                   result |-> [Ok("List inserted") EXCEPT
                                  !.inserted = Len(new_paras),
                                  !.style = ListStyle, !.anchor = t.idx]]

-----------------------------------------------------------------------------
(* delete_block_under_header and replace_paragraph_block_below_header *)

\* _normalize_text(text).lower(), the key both header searches compare
HeaderKey(text) == Lower(NormalizeText(text))

\* the header search of delete_block_under_header: the first paragraph whose
\* key equals the key of header_text; when there is none, the first
\* heading-styled paragraph whose key holds it; -1 when there is none
DeleteBlockHeaderIdx(paras, header_text) ==
    LET key == HeaderKey(header_text)
        N == 0..(Len(paras) - 1)
        exact == FirstOf({k \in N : HeaderKey(paras[k + 1].text) = key})
    IN  IF exact >= 0 THEN exact
        ELSE FirstOf({k \in N : /\ IsHeadingStyle(paras[k + 1].style)
                                /\ Contains(HeaderKey(paras[k + 1].text), key)})

\* the first paragraph after header_idx with a heading or TOC style, the
\* number of paragraphs when there is none
BlockEndIdx(paras, header_idx) ==
    LET next == FirstOf({i \in (header_idx + 1)..(Len(paras) - 1) :
                            IsBlockEndStyle(paras[i + 1].style)})
    IN  IF next >= 0 THEN next ELSE Len(paras)

\* for i in range(header_idx + 1, end_idx):
\*     if i < len(doc.paragraphs): remove doc.paragraphs[header_idx + 1]
RECURSIVE RemoveBlockLoop(_, _, _, _)
RemoveBlockLoop(body, header_idx, i, end_idx) ==
    IF i >= end_idx THEN [body |-> body, removed |-> 0]
    ELSE IF i < NumParas(body)
    THEN LET r == RemoveBlockLoop(RemoveAt(body, ParaPos(body, header_idx + 1)), header_idx, i + 1, end_idx)
         IN  [body |-> r.body, removed |-> r.removed + 1]
    ELSE RemoveBlockLoop(body, header_idx, i + 1, end_idx)

\* delete_block_under_header(doc, header_text) on the open document
delete_block_under_header(body, header_text) ==
    LET paras == Paragraphs(body)
        header_idx == DeleteBlockHeaderIdx(paras, header_text)
    IN  IF header_idx < 0
        THEN [body |-> body, header_idx |-> -1, end_idx |-> -1, removed |-> 0]
        ELSE LET end_idx == BlockEndIdx(paras, header_idx)
                 r == RemoveBlockLoop(body, header_idx, header_idx + 1, end_idx)
             IN  [body |-> r.body, header_idx |-> header_idx,
                  end_idx |-> end_idx, removed |-> r.removed]

\* a faulty variant of the header search: the contains pass takes any
\* paragraph, heading-styled or not
BelowHeaderIdxAnyContains(paras, header_text) ==
    LET key == HeaderKey(header_text)
        N == {k \in 0..(Len(paras) - 1) : ~IsTocStyle(paras[k + 1].style)}
        exact == FirstOf({k \in N : HeaderKey(paras[k + 1].text) = key})
    IN  IF exact >= 0 THEN exact
        ELSE FirstOf({k \in N : Contains(HeaderKey(paras[k + 1].text), key)})

\* the header search of replace_paragraph_block_below_header itself: TOC
\* paragraphs are skipped in both passes
BelowHeaderIdx(paras, header_text) ==
    LET key == HeaderKey(header_text)
        N == {k \in 0..(Len(paras) - 1) : ~IsTocStyle(paras[k + 1].style)}
        exact == FirstOf({k \in N : HeaderKey(paras[k + 1].text) = key})
    IN  IF exact >= 0 THEN exact
        ELSE FirstOf({k \in N : /\ IsHeadingStyle(paras[k + 1].style)
                                /\ Contains(HeaderKey(paras[k + 1].text), key)})

\* detached is what lxml does when addnext is called on an element that has
\* been removed from the body: "TypeError" (it refuses) or "sibling" (the new
\* element leaves the body and joins the removed one)
replace_paragraph_block_below_header(d, header_text, new, style, detached) ==
    IF d.state = "missing" THEN Ret(d, Fail("Document not found"))
    ELSE IF d.state = "corrupt" THEN Ret(d, Raised("open"))
    ELSE LET header_idx == BelowHeaderIdx(Paragraphs(d.body), header_text) IN
         IF header_idx < 0 THEN Ret(d, Fail("Header not found"))
         ELSE LET del == delete_block_under_header(d.body, header_text)
                  style_to_use == IF style # "" THEN style ELSE "Normal"
                  gone == /\ header_idx > del.header_idx
                          /\ header_idx <= del.header_idx + del.removed
                  now_idx == IF header_idx > del.header_idx
                             THEN header_idx - del.removed ELSE header_idx
                  locals == [NoResult EXCEPT
                                !.start = header_idx, !.delstart = del.header_idx,
                                !.end = del.end_idx, !.removed = del.removed,
                                !.inserted = Len(new), !.style = style_to_use]
              IN  IF new # <<>> /\ ~StyleKnown(style_to_use)
                  THEN Ret(d, [locals EXCEPT !.status = "raised", !.msg = "style"])
                  ELSE IF new # <<>> /\ gone /\ detached = "TypeError"
                  THEN Ret(d, [locals EXCEPT !.status = "raised", !.msg = "addnext"])
                  ELSE [disk |-> Saved(IF gone THEN del.body
                                       ELSE InsertChain(del.body, ParaPos(del.body, now_idx), NewParas(new, style_to_use))),
                        result |-> [locals EXCEPT !.status = "ok",
                                                  !.msg = "Replaced content under"]]

-----------------------------------------------------------------------------
(* replace_block_between_manual_anchors *)

\* "".join(the w:t texts of the element).strip()
PText(el) == Strip(el.text)

\* no match_fn given
NoMatchFn == [on |-> FALSE, start |-> tEmpty, end |-> tEmpty]

\* a caller's match_fn(p_text, el, is_end = False): it accepts the paragraph
\* whose text is fn.start, or fn.end when is_end
MatchFn(fn, p_text, is_end) == p_text = (IF is_end THEN fn.end ELSE fn.start)

\* a faulty variant of the anchor search: one pass that takes the first
\* paragraph containing the anchor text
AnchorIdxContainsOnly(elements, from, anchor_text, fn, is_end) ==
    LET N == {i \in from..(Len(elements) - 1) : elements[i + 1].kind = "p"}
    IN  IF fn.on
        THEN FirstOf({i \in N : MatchFn(fn, PText(elements[i + 1]), is_end)})
        ELSE FirstOf({i \in N : Contains(NormalizeText(PText(elements[i + 1])), NormalizeText(anchor_text))})

\* the anchor search over elements[from ..]: the first paragraph element the
\* match_fn accepts, or without one the first whose normalized text equals
\* the normalized anchor text, else the first that contains it; indices count
\* the body's children from 0; -1 when there is none
AnchorIdx(elements, from, anchor_text, fn, is_end) ==
    LET N == {i \in from..(Len(elements) - 1) : elements[i + 1].kind = "p"}
        first == FirstOf({i \in N :
                    IF fn.on THEN MatchFn(fn, PText(elements[i + 1]), is_end)
                    ELSE NormalizeText(PText(elements[i + 1])) = NormalizeText(anchor_text)})
    IN  IF first >= 0 \/ fn.on THEN first
        ELSE FirstOf({i \in N : Contains(NormalizeText(PText(elements[i + 1])), NormalizeText(anchor_text))})

\* rpr.find(w:b) is not None or rpr.find(w:caps) is not None or
\* rpr.find(w:sz) is not None: the run properties hold the element, whatever
\* its value ("boldoff" is <w:b w:val="0"/>, what run.bold = False writes)
HasRunMark(fmt) == fmt \in {"bold", "boldoff", "caps", "size"}

\* without an end anchor: the first paragraph after start_idx with a run whose
\* properties hold w:b, w:caps or w:sz; -1 when there is none
VisualEndIdx(elements, start_idx) ==
    FirstOf({i \in (start_idx + 1)..(Len(elements) - 1) :
                elements[i + 1].kind = "p" /\ HasRunMark(elements[i + 1].fmt)})

\* body.remove of elements[start_idx + 1 .. stop - 1]
RemoveBetween(elements, start_idx, stop) ==
    SubSeq(elements, 1, start_idx + 1) \o SubSeq(elements, stop + 1, Len(elements))

\* the search for the start anchor in the reloaded document: over
\* doc.paragraphs, exact first and contains second; -1 when there is none
ReloadAnchorIdx(paras, start_anchor_text) ==
    LET N == 0..(Len(paras) - 1)
        key == NormalizeText(start_anchor_text)
        exact == FirstOf({k \in N : NormalizeText(paras[k + 1].text) = key})
    IN  IF exact >= 0 THEN exact
        ELSE FirstOf({k \in N : Contains(NormalizeText(paras[k + 1].text), key)})

replace_block_between_manual_anchors(d, start_anchor_text, new, end_anchor_text, fn, style) ==
    IF d.state = "missing" THEN Ret(d, Fail("Document not found"))
    ELSE IF d.state = "corrupt" THEN Ret(d, Raised("open"))
    ELSE LET elements == d.body
             start_idx == AnchorIdx(elements, 0, start_anchor_text, fn, FALSE)
         IN
         IF start_idx < 0 THEN Ret(d, Fail("Start anchor not found"))
         ELSE LET end_idx == IF end_anchor_text # <<>>
                             THEN AnchorIdx(elements, start_idx + 1, end_anchor_text, fn, TRUE)
                             ELSE VisualEndIdx(elements, start_idx)
                  stop == IF end_idx >= 0 THEN end_idx ELSE Len(elements)
                  cut == RemoveBetween(elements, start_idx, stop)
                  anchor_idx == ReloadAnchorIdx(Paragraphs(cut), start_anchor_text)
                  style_to_use == IF style # "" THEN style ELSE "Normal"
                  locals == [NoResult EXCEPT
                                !.start = start_idx, !.end = end_idx,
                                !.removed = stop - start_idx - 1,
                                !.inserted = Len(new), !.style = style_to_use]
              IN  \* the first doc.save(doc_path) has written `cut`
                  IF anchor_idx < 0
                  THEN [disk |-> Saved(cut),
                        result |-> [locals EXCEPT !.status = "fail",
                                       !.msg = "Start anchor not found after deletion"]]
                  ELSE LET anchor_pos == ParaPos(cut, anchor_idx) IN
                       IF new # <<>> /\ ~StyleKnown(style_to_use)
                       THEN [disk |-> Saved(cut),
                             result |-> [locals EXCEPT !.status = "raised",
                                            !.msg = "style", !.anchor = anchor_pos - 1]]
                       ELSE [disk |-> Saved(InsertChain(cut, anchor_pos, NewParas(new, style_to_use))),
                             result |-> [locals EXCEPT !.status = "ok",
                                            !.msg = "Replaced content between",
                                            !.anchor = anchor_pos - 1]]

-----------------------------------------------------------------------------
(* get_section_paragraphs *)

\* the heading search: heading-styled paragraphs only, exact first and
\* contains second, letter case kept; -1 when there is none
SectionHeadingIdx(paras, heading_text) ==
    LET key == NormalizeText(heading_text)
        N == {k \in 0..(Len(paras) - 1) : StartsWithHeading(paras[k + 1].style)}
        exact == FirstOf({k \in N : NormalizeText(paras[k + 1].text) = key})
    IN  IF exact >= 0 THEN exact
        ELSE FirstOf({k \in N : Contains(NormalizeText(paras[k + 1].text), key)})

\* a faulty variant of the walk forward: any later heading ends the section,
\* whatever its level
NextHeadingIdxAnyLevel(paras, heading_idx, heading_level) ==
    FirstOf({i \in (heading_idx + 1)..(Len(paras) - 1) :
                StartsWithHeading(paras[i + 1].style)})

\* the first later heading whose level is at most heading_level, -1 for None
NextHeadingIdx(paras, heading_idx, heading_level) ==
    FirstOf({i \in (heading_idx + 1)..(Len(paras) - 1) :
                /\ StartsWithHeading(paras[i + 1].style)
                /\ HeadingLevel(paras[i + 1].style) <= heading_level})

\* a faulty variant of the content boundary: the next heading is taken in
ContentEndIdxAtNext(paras, next_heading_idx) ==
    IF next_heading_idx < 0 THEN Len(paras) - 1 ELSE next_heading_idx

\* the last paragraph before the next heading, the last of the document
\* when there is none
ContentEndIdx(paras, next_heading_idx) ==
    IF next_heading_idx < 0 THEN Len(paras) - 1 ELSE next_heading_idx - 1

\* the returned dictionary; None is -1
get_section_paragraphs(d, heading_text, include_heading) ==
    IF d.state = "missing" THEN Ret(d, Fail("Document does not exist"))
    ELSE IF d.state = "corrupt" THEN Ret(d, Fail("Failed to get section paragraphs"))
    ELSE LET paras == Paragraphs(d.body)
             heading_idx == SectionHeadingIdx(paras, heading_text)
         IN
         IF heading_idx < 0 THEN Ret(d, Fail("Heading not found"))
         ELSE LET heading_level == HeadingLevel(paras[heading_idx + 1].style)
                  next_heading_idx == NextHeadingIdx(paras, heading_idx, heading_level)
                  content_end_idx == ContentEndIdx(paras, next_heading_idx)
                  start == IF include_heading THEN heading_idx ELSE heading_idx + 1
                  n == IF content_end_idx >= start THEN content_end_idx - start + 1 ELSE 0
              IN  Ret(d, [Ok("section") EXCEPT
                     !.start = heading_idx,
                     !.end = next_heading_idx,
                     !.data = [heading_index |-> heading_idx,
                               heading_level |-> heading_level,
                               content_start_index |->
                                   IF heading_idx + 1 <= content_end_idx
                                   THEN heading_idx + 1 ELSE -1,
                               content_end_index |->
                                   IF content_end_idx > heading_idx
                                   THEN content_end_idx ELSE -1,
                               next_heading_index |-> next_heading_idx,
                               paragraphs |-> [j \in 1..n |->
                                   [index |-> start + j - 1,
                                    text |-> paras[start + j].text,
                                    style |-> paras[start + j].style,
                                    is_heading |-> StartsWithHeading(paras[start + j].style)]]]])

-----------------------------------------------------------------------------
(* The documents and arguments the calls are drawn from *)

\* a style name the document does not define
NoSuchStyle == "No Such Style"

\* the body elements of the documents the index-based operations start from
IndexElems ==
    {Para(tC, "Normal", "plain"), Para(tS, "Heading 1", "plain"),
     Para(tS, "TOC 1", "plain"), Para(tE, "Normal", "bold"), Tbl}

\* the body elements of the documents the text-resolving operations start from
AnchorElems ==
    {Para(tS, "Heading 1", "plain"), Para(tXS, "Heading 1", "size"),
     Para(tS, "Normal", "plain"), Para(tXS, "Normal", "boldoff"),
     Para(tC, "Normal", "plain"), Para(tS, "TOC 1", "caps"),
     Para(tE, "Heading 2", "bold"), Tbl}

\* the documents python-docx writes: up to max elements of the pool and the
\* section properties last
Bodies(pool, max) == {b \o <<SectPr>> : b \in UNION {[1..n -> pool] : n \in 0..max}}

Missing == [state |-> "missing", body |-> <<>>]
Corrupt == [state |-> "corrupt", body |-> <<>>]
Files(pool, max) == {Missing, Corrupt} \cup {Saved(b) : b \in Bodies(pool, max)}

Indexes == -1..MaxIndexLen
NewLists == {<<>>, <<tN, tEmpty>>}
StyleArgs == {"", "Heading 2", NoSuchStyle}
Queries == {tS, tE, tZ}
Positions == {"before", "after"}
MatchFns == {NoMatchFn, [on |-> TRUE, start |-> tC, end |-> tE]}

NoCall == [op |-> "none"]

\* no paragraph in memory
NoMem == [runs |-> <<>>, prev |-> <<>>, count |-> 0]

\* one call: it starts from the file as it is and ends with what the handler
\* returned and what it saved
Do(c, r) ==
    /\ pc' = "done"
    /\ before' = disk
    /\ call' = c
    /\ disk' = r.disk
    /\ result' = r.result
    /\ mem' = mem

-----------------------------------------------------------------------------
(* The calls *)

DeleteParagraphRange ==
    /\ pc = "idle"
    /\ \E start \in Indexes, end \in Indexes :
        Do([op |-> "delete_paragraph_range", start |-> start, end |-> end],
           delete_paragraph_range(disk, start, end))

ReplaceParagraphRange ==
    /\ pc = "idle"
    /\ \E start \in Indexes, end \in Indexes, new \in NewLists, style \in StyleArgs, preserve \in BOOLEAN :
        Do([op |-> "replace_paragraph_range", start |-> start, end |-> end,
            new |-> new, style |-> style, preserve |-> preserve],
           replace_paragraph_range(disk, start, end, new, style, preserve))

ReplaceParagraphText ==
    /\ pc = "idle"
    /\ \E index \in Indexes, preserve \in BOOLEAN, md \in BOOLEAN :
        Do([op |-> "replace_paragraph_text", index |-> index, new_text |-> tN,
            preserve |-> preserve, parse_markdown |-> md],
           replace_paragraph_text(disk, index, tN, preserve, md))

InsertHeaderNearText ==
    /\ pc = "idle"
    /\ \E byIndex \in BOOLEAN, text \in {tS, tZ}, index \in Indexes, position \in Positions, style \in {"Heading 1", NoSuchStyle} :
        /\ byIndex => text = tS
        /\ ~byIndex => index = 0
        /\ Do([op |-> "insert_header_near_text", byIndex |-> byIndex,
               target_text |-> text, index |-> index, text |-> tN,
               position |-> position, style |-> style],
              insert_header_near_text(disk, byIndex, text, index, tN, position, style))

InsertLineOrParagraphNearText ==
    /\ pc = "idle"
    /\ \E byIndex \in BOOLEAN, text \in {tS, tZ}, index \in Indexes, position \in Positions, style \in StyleArgs, copy \in {-1, 0} :
        /\ byIndex => text = tS
        /\ ~byIndex => index = 0
        /\ Do([op |-> "insert_line_or_paragraph_near_text", byIndex |-> byIndex,
               target_text |-> text, index |-> index, text |-> tN,
               position |-> position, style |-> style, copy |-> copy],
              insert_line_or_paragraph_near_text(disk, byIndex, text, index, tN, position, style, copy))

InsertNumberedListNearText ==
    /\ pc = "idle"
    /\ \E byIndex \in BOOLEAN, text \in {tS, tZ}, index \in Indexes, position \in Positions, items \in {<<>>, <<tN, tC>>}, bullet_type \in {"bullet", "number"} :
        /\ byIndex => text = tS
        /\ ~byIndex => index = 0
        /\ Do([op |-> "insert_numbered_list_near_text", byIndex |-> byIndex,
               target_text |-> text, index |-> index, items |-> items,
               position |-> position, bullet_type |-> bullet_type],
              insert_numbered_list_near_text(disk, byIndex, text, index, items, position, bullet_type))

\* the style argument is read only when a paragraph is added, so the calls
\* that add none pass the default
ReplaceParagraphBlockBelowHeader ==
    /\ pc = "idle"
    /\ \E header_text \in Queries, new \in NewLists, style \in StyleArgs, detached \in {"TypeError", "sibling"} :
        /\ (new = <<>> => style = "")
        /\ Do([op |-> "replace_paragraph_block_below_header", header_text |-> header_text,
            new |-> new, style |-> style, detached |-> detached],
           replace_paragraph_block_below_header(disk, header_text, new, style, detached))

ReplaceBlockBetweenManualAnchors ==
    /\ pc = "idle"
    /\ \E start_text \in Queries, end_text \in Queries \cup {tEmpty}, new \in NewLists, fn \in MatchFns, style \in StyleArgs :
        /\ (new = <<>> => style = "")
        /\ Do([op |-> "replace_block_between_manual_anchors", start_text |-> start_text,
            end_text |-> end_text, new |-> new, fn |-> fn, style |-> style],
           replace_block_between_manual_anchors(disk, start_text, new, end_text, fn, style))

GetSectionParagraphs ==
    /\ pc = "idle"
    /\ \E heading_text \in Queries, include_heading \in BOOLEAN :
        Do([op |-> "get_section_paragraphs", heading_text |-> heading_text,
            include_heading |-> include_heading],
           get_section_paragraphs(disk, heading_text, include_heading))

-----------------------------------------------------------------------------
(* Specifications *)

InitWith(pool, max) ==
    /\ pc = "idle"
    /\ disk \in Files(pool, max)
    /\ before = disk
    /\ call = NoCall
    /\ result = NoResult
    /\ mem = NoMem

\* the operations that address paragraphs by index or by plain text
InitIndex == InitWith(IndexElems, MaxIndexLen)

NextIndex ==
    \/ DeleteParagraphRange
    \/ ReplaceParagraphRange
    \/ ReplaceParagraphText
    \/ InsertHeaderNearText
    \/ InsertLineOrParagraphNearText
    \/ InsertNumberedListNearText

SpecIndex == InitIndex /\ [][NextIndex]_vars

\* the operations that resolve a header, a heading or anchors by text
InitAnchor == InitWith(AnchorElems, MaxLen)

NextAnchor ==
    \/ ReplaceParagraphBlockBelowHeader
    \/ ReplaceBlockBetweenManualAnchors
    \/ GetSectionParagraphs

SpecAnchor == InitAnchor /\ [][NextAnchor]_vars

\* every operation, from every document
Init == InitIndex \/ InitAnchor

Next == NextIndex \/ NextAnchor

Spec == Init /\ [][Next]_vars

-----------------------------------------------------------------------------
(* Properties *)

Called(op) == pc = "done" /\ call.op = op

MutatingOps ==
    {"delete_paragraph_range", "replace_paragraph_range", "replace_paragraph_text",
     "insert_header_near_text", "insert_line_or_paragraph_near_text",
     "insert_numbered_list_near_text", "replace_paragraph_block_below_header",
     "replace_block_between_manual_anchors"}

\* the paragraphs of the document before and after the call
ParasBefore == Paragraphs(before.body)
ParasAfter == Paragraphs(disk.body)

\* the elements of a body that are not paragraphs, in order
IsOther(el) == el.kind # "p"
Others(body) == SelectSeq(body, IsOther)

\* C1: no partial write.  Whenever a call of a mutating operation does not
\* end in a success result (it returns a failure message or a fault leaves
\* it), the file on disk is the file as it was before the call.
C1_NoPartialWrite ==
    (pc = "done" /\ call.op \in MutatingOps /\ result.status # "ok")
        => disk = before

\* C2: totality.  No call of a public operation ends with a fault of the
\* document library (opening the file, looking up a style, saving) leaving
\* the function: every call returns a success or a failure result.
C2_NoFaultPropagates ==
    pc = "done" => result.status \in {"ok", "fail"}

\* C3: replace_paragraph_block_below_header removes the whole block.  With
\* the header resolved at paragraph h (by the operation's search and by the
\* deleting step alike) and the first later heading- or TOC-styled paragraph
\* at e (the paragraph count when there is none), the paragraphs after a
\* successful call are before[0..h] ++ new ++ before[e..] and the removed
\* count reported is e - h - 1.
C3_BlockBelowHeaderRemoved ==
    (/\ Called("replace_paragraph_block_below_header")
     /\ result.status = "ok"
     /\ result.delstart = result.start)
        => LET h == result.start
               later == {i \in (h + 1)..(Len(ParasBefore) - 1) :
                            IsBlockEndStyle(ParasBefore[i + 1].style)}
               e == IF later = {} THEN Len(ParasBefore)
                    ELSE CHOOSE i \in later : \A j \in later : i <= j
           IN  /\ ParasAfter = SubSeq(ParasBefore, 1, h + 1)
                               \o NewParas(call.new, result.style)
                               \o SubSeq(ParasBefore, e + 1, Len(ParasBefore))
               /\ result.removed = e - h - 1

\* C4: replace_block_between_manual_anchors with both anchors resolved, the
\* start anchor at body element s and the end anchor at e > s: after a
\* successful call
\* the body is before[0..s] ++ new paragraphs ++ before[e..], the e - s - 1
\* elements strictly between the anchors (tables too) are gone, both anchors
\* are kept, and the removed count reported is e - s - 1.
C4_BlockBetweenAnchorsReplaced ==
    (/\ Called("replace_block_between_manual_anchors")
     /\ result.status = "ok"
     /\ call.end_text # <<>>
     /\ result.start >= 0 /\ result.end > result.start)
        => /\ disk.body = SubSeq(before.body, 1, result.start + 1)
                          \o NewParas(call.new, result.style)
                          \o SubSeq(before.body, result.end + 1, Len(before.body))
           /\ result.removed = result.end - result.start - 1

\* the same for the calls that pass no match_fn
C4_WithoutMatchFn ==
    (Called("replace_block_between_manual_anchors") /\ ~call.fn.on)
        => C4_BlockBetweenAnchorsReplaced

\* C5: replace_block_between_manual_anchors with an end anchor text that
\* matches no paragraph after the start anchor returns a "not found" message
\* and removes and inserts nothing.
C5_EndAnchorNotFound ==
    (/\ Called("replace_block_between_manual_anchors")
     /\ result.start >= 0
     /\ call.end_text # <<>>
     /\ result.end < 0)
        => /\ result.status = "fail"
           /\ result.msg \in {"Start anchor not found", "End anchor not found"}
           /\ disk = before

\* C6: replace_paragraph_range on a valid range [start, end], with a style
\* the document defines: the call succeeds and the paragraphs after it are
\* before[0..start-1] ++ items ++ before[end+1..]: the length is
\* length_before - (end - start + 1) + len(items), the new paragraphs carry
\* the item texts in input order (an empty item is an empty paragraph), and
\* the paragraphs before start, the one at start - 1 among them, and after
\* end are unchanged.
C6_ReplaceRange ==
    (/\ Called("replace_paragraph_range")
     /\ before.state = "ok"
     /\ 0 <= call.start /\ call.start <= call.end /\ call.end < Len(ParasBefore)
     /\ (call.new = <<>> \/ call.style = "" \/ StyleKnown(call.style)))
        => LET n == Len(ParasBefore)
               shift == Len(call.new) - (call.end - call.start + 1)
           IN  /\ result.status = "ok"
               /\ Len(ParasAfter) = n + shift
               /\ \A i \in 1..call.start : ParasAfter[i] = ParasBefore[i]
               /\ \A i \in 1..Len(call.new) :
                      ParasAfter[call.start + i].text = call.new[i]
               /\ \A i \in (call.end + 2)..n : ParasAfter[i + shift] = ParasBefore[i]
               /\ Others(disk.body) = Others(before.body)

\* a range in the middle replaced by two items, the second one empty
C6_Witness ==
    /\ Called("replace_paragraph_range")
    /\ result.status = "ok"
    /\ call.start > 0 /\ call.end > call.start /\ call.end + 1 < Len(ParasBefore)
    /\ call.new = <<tN, tEmpty>>
    /\ Len(ParasAfter) = Len(ParasBefore)

\* C7: delete_paragraph_range on a valid range [start, end]: the call
\* succeeds, the paragraphs after it are before[0..start-1] ++ before[end+1..]
\* with text and style as before, the length is length_before - (end - start
\* + 1), and the paragraphs were removed in strictly descending index order,
\* end first and start last.
C7_DeleteRange ==
    (/\ Called("delete_paragraph_range")
     /\ before.state = "ok"
     /\ 0 <= call.start /\ call.start <= call.end /\ call.end < Len(ParasBefore))
        => LET n == Len(ParasBefore)
               k == call.end - call.start + 1
           IN  /\ result.status = "ok"
               /\ Len(ParasAfter) = n - k
               /\ \A i \in 1..call.start : ParasAfter[i] = ParasBefore[i]
               /\ \A i \in (call.end + 2)..n : ParasAfter[i - k] = ParasBefore[i]
               /\ Len(result.order) = k
               /\ \A i \in 1..k : result.order[i] = call.end - (i - 1)
               /\ Others(disk.body) = Others(before.body)

\* two paragraphs deleted from the middle of four
C7_Witness ==
    /\ Called("delete_paragraph_range")
    /\ result.status = "ok"
    /\ call.start > 0 /\ call.end > call.start /\ call.end + 1 < Len(ParasBefore)
    /\ Len(ParasAfter) = 2

\* the index argument of the call is outside the paragraphs of the document
BadIndexCall ==
    \/ /\ call.op \in {"delete_paragraph_range", "replace_paragraph_range"}
       /\ \/ call.start < 0
          \/ call.end >= Len(ParasBefore)
          \/ call.start > call.end
    \/ /\ call.op = "replace_paragraph_text"
       /\ (call.index < 0 \/ call.index >= Len(ParasBefore))
    \/ /\ call.op \in {"insert_header_near_text", "insert_line_or_paragraph_near_text",
                       "insert_numbered_list_near_text"}
       /\ call.byIndex
       /\ (call.index < 0 \/ call.index >= Len(ParasBefore))

C9_StylePrecedence ==
    (Called("replace_paragraph_range") /\ result.status = "ok")
        => LET expected ==
                   IF call.style # "" THEN call.style
                   ELSE IF call.preserve THEN ParasBefore[call.start + 1].style
                   ELSE "Normal"
           IN  \A i \in 1..Len(call.new) :
                   /\ ParasAfter[call.start + i].text = call.new[i]
                   /\ ParasAfter[call.start + i].style = expected

\* an explicit style wins over preserve_style on a paragraph of another
\* style, and the empty paragraph carries it
C9_Witness ==
    /\ Called("replace_paragraph_range")
    /\ result.status = "ok"
    /\ call.style = "Heading 2" /\ call.preserve
    /\ ParasBefore[call.start + 1].style = "Heading 1"
    /\ call.new = <<tN, tEmpty>>
    /\ ParasAfter[call.start + 2] = Para(tEmpty, "Heading 2", "plain")

\* r is what a two-pass search answers: the first exact match when there is
\* one, whatever contains the query before it; otherwise the first match of
\* the contains pass; otherwise nothing (-1)
ExactFirst(r, exact, contains) ==
    /\ exact # {} => (r \in exact /\ \A j \in exact : r <= j)
    /\ (exact = {} /\ contains # {}) => (r \in contains /\ \A j \in contains : r <= j)
    /\ (exact = {} /\ contains = {}) => r = -1

\* the paragraph elements of the body before the call, from element `from` on
ParaElems(from) ==
    {i \in from..(Len(before.body) - 1) : before.body[i + 1].kind = "p"}

\* C10: exact-first resolution.  In every resolver (start anchor and end
\* anchor of replace_block_between_manual_anchors called without a match_fn,
\* header of replace_paragraph_block_below_header and of its deleting step,
\* heading of get_section_paragraphs), when the normalized text of some
\* element eligible for the exact pass equals the normalized query, the
\* resolved element is the first such element in document order, even when
\* an element that only contains the query comes earlier; the contains pass
\* decides only when the exact pass matched nothing, and it answers its
\* first match in document order.
C10_ExactFirst ==
    /\ (Called("replace_block_between_manual_anchors") /\ before.state = "ok" /\ ~call.fn.on)
         => LET q == NormalizeText(call.start_text)
                T(i) == NormalizeText(Strip(before.body[i + 1].text))
            IN  ExactFirst(result.start,
                           {i \in ParaElems(0) : T(i) = q},
                           {i \in ParaElems(0) : Contains(T(i), q)})
    /\ (/\ Called("replace_block_between_manual_anchors") /\ before.state = "ok"
        /\ ~call.fn.on /\ result.start >= 0 /\ call.end_text # <<>>)
         => LET q == NormalizeText(call.end_text)
                T(i) == NormalizeText(Strip(before.body[i + 1].text))
            IN  ExactFirst(result.end,
                           {i \in ParaElems(result.start + 1) : T(i) = q},
                           {i \in ParaElems(result.start + 1) : Contains(T(i), q)})
    /\ (Called("replace_paragraph_block_below_header") /\ before.state = "ok")
         => LET q == Lower(NormalizeText(call.header_text))
                T(k) == Lower(NormalizeText(ParasBefore[k + 1].text))
                N == {k \in 0..(Len(ParasBefore) - 1) : ~IsTocStyle(ParasBefore[k + 1].style)}
            IN  ExactFirst(result.start,
                           {k \in N : T(k) = q},
                           {k \in N : IsHeadingStyle(ParasBefore[k + 1].style) /\ Contains(T(k), q)})
    /\ (Called("replace_paragraph_block_below_header") /\ result.start >= 0)
         => LET q == Lower(NormalizeText(call.header_text))
                T(k) == Lower(NormalizeText(ParasBefore[k + 1].text))
                N == 0..(Len(ParasBefore) - 1)
            IN  ExactFirst(result.delstart,
                           {k \in N : T(k) = q},
                           {k \in N : IsHeadingStyle(ParasBefore[k + 1].style) /\ Contains(T(k), q)})
    /\ (Called("get_section_paragraphs") /\ before.state = "ok")
         => LET q == NormalizeText(call.heading_text)
                T(k) == NormalizeText(ParasBefore[k + 1].text)
                N == {k \in 0..(Len(ParasBefore) - 1) : StartsWithHeading(ParasBefore[k + 1].style)}
            IN  ExactFirst(result.start,
                           {k \in N : T(k) = q},
                           {k \in N : Contains(T(k), q)})

\* a paragraph that only contains the start anchor text comes first and the
\* paragraph that equals it is the one resolved
C10_Witness ==
    /\ Called("replace_block_between_manual_anchors")
    /\ ~call.fn.on
    /\ call.start_text = tS
    /\ result.start = 1
    /\ before.body[1].kind = "p" /\ before.body[1].text = tXS
    /\ before.body[2].kind = "p" /\ before.body[2].text = tS

\* the paragraphs of the document before the call, by index from 0
PIdx == 0..(Len(ParasBefore) - 1)

\* C11: heading-restricted contains fallback.  In
\* replace_paragraph_block_below_header and get_section_paragraphs, when the
\* exact pass matched nothing, the header resolved is the first
\* heading-styled paragraph whose normalized text contains the normalized
\* query (none when there is no such paragraph); a paragraph that is not
\* heading-styled and contains the query is never resolved, even when it
\* comes earlier.
C11_HeadingContainsFallback ==
    /\ (/\ Called("replace_paragraph_block_below_header") /\ before.state = "ok"
        /\ \A k \in PIdx : ~IsTocStyle(ParasBefore[k + 1].style)
                            => HeaderKey(ParasBefore[k + 1].text) # HeaderKey(call.header_text))
         => LET holds == {k \in PIdx :
                            /\ IsHeadingStyle(ParasBefore[k + 1].style)
                            /\ Contains(HeaderKey(ParasBefore[k + 1].text),
                                        HeaderKey(call.header_text))}
            IN  /\ result.start = FirstOf(holds)
                /\ (holds = {} => result.msg = "Header not found")
    /\ (/\ Called("get_section_paragraphs") /\ before.state = "ok"
        /\ \A k \in PIdx : StartsWithHeading(ParasBefore[k + 1].style)
                            => NormalizeText(ParasBefore[k + 1].text) # NormalizeText(call.heading_text))
         => LET holds == {k \in PIdx :
                            /\ StartsWithHeading(ParasBefore[k + 1].style)
                            /\ Contains(NormalizeText(ParasBefore[k + 1].text),
                                        NormalizeText(call.heading_text))}
            IN  /\ result.start = FirstOf(holds)
                /\ (holds = {} => result.msg = "Heading not found")

\* a body paragraph containing the query comes first and the heading that
\* contains it is the one resolved
C11_Witness ==
    /\ Called("replace_paragraph_block_below_header")
    /\ call.header_text = tS
    /\ Len(ParasBefore) >= 2
    /\ ParasBefore[1] = Para(tXS, "Normal", "boldoff")
    /\ ParasBefore[2] = Para(tXS, "Heading 1", "size")
    /\ result.start = 1
    /\ result.status = "ok"

\* C12: heading-only exact pass.  The paragraph resolved as the header by
\* replace_paragraph_block_below_header, by its delete_block_under_header
\* step and by get_section_paragraphs is heading-styled: a paragraph of
\* another style is never resolved, even when its normalized text equals the
\* normalized query.
C12_HeadingOnlyExact ==
    /\ (Called("replace_paragraph_block_below_header") /\ result.start >= 0)
         => /\ IsHeadingStyle(ParasBefore[result.start + 1].style)
            /\ (result.delstart >= 0
                 => IsHeadingStyle(ParasBefore[result.delstart + 1].style))
    /\ (Called("get_section_paragraphs") /\ result.start >= 0)
         => StartsWithHeading(ParasBefore[result.start + 1].style)

\* C15: table-of-contents-styled paragraphs are never matched.  The element
\* resolved as start or end anchor by replace_block_between_manual_anchors,
\* and the paragraph resolved as the header by
\* replace_paragraph_block_below_header and by its delete_block_under_header
\* step, never carries a TOC style, whatever its text.
C15_TocNeverMatched ==
    /\ (Called("replace_block_between_manual_anchors") /\ result.start >= 0)
         => /\ ~IsTocStyle(before.body[result.start + 1].style)
            /\ (result.end >= 0 => ~IsTocStyle(before.body[result.end + 1].style))
    /\ (Called("replace_paragraph_block_below_header") /\ result.start >= 0)
         => /\ ~IsTocStyle(ParasBefore[result.start + 1].style)
            /\ (result.delstart >= 0
                 => ~IsTocStyle(ParasBefore[result.delstart + 1].style))

\* C18: level-aware section extraction.  get_section_paragraphs on a heading
\* at paragraph h of level N returns as content exactly the paragraphs
\* h+1 .. t-1, where t is the first later heading-styled paragraph of level
\* <= N (headings of a deeper level in between are content);
\* next_heading_index is t, or None (-1), the content then running to the
\* last paragraph, when there is no such heading.
C18_LevelAwareSection ==
    (Called("get_section_paragraphs") /\ result.status = "ok")
        => LET h == result.start
               N == HeadingLevel(ParasBefore[h + 1].style)
               T == {i \in (h + 1)..(Len(ParasBefore) - 1) :
                        /\ StartsWithHeading(ParasBefore[i + 1].style)
                        /\ HeadingLevel(ParasBefore[i + 1].style) <= N}
               t == IF T = {} THEN Len(ParasBefore)
                    ELSE CHOOSE i \in T : \A j \in T : i <= j
               content == IF call.include_heading
                          THEN Tail(result.data.paragraphs)
                          ELSE result.data.paragraphs
           IN  /\ result.data.heading_level = N
               /\ result.data.next_heading_index = (IF T = {} THEN -1 ELSE t)
               /\ Len(content) = t - h - 1
               /\ \A j \in 1..Len(content) :
                      /\ content[j].index = h + j
                      /\ content[j].text = ParasBefore[h + j + 1].text
                      /\ content[j].style = ParasBefore[h + j + 1].style

\* a level-2 heading between two level-1 headings is content of the first
C18_Witness ==
    /\ Called("get_section_paragraphs")
    /\ result.status = "ok"
    /\ ~call.include_heading
    /\ result.start = 0
    /\ Len(ParasBefore) = 3
    /\ ParasBefore[1].style = "Heading 1"
    /\ ParasBefore[2].style = "Heading 2"
    /\ ParasBefore[3].style = "Heading 1"
    /\ result.data.next_heading_index = 2
    /\ Len(result.data.paragraphs) = 1
    /\ result.data.paragraphs[1].style = "Heading 2"

\* paragraphs and tables, the block-level elements of a body
IsBlock(el) == el.kind \in {"p", "tbl"}
Blocks(body) == SelectSeq(body, IsBlock)

\* C19: visual-distinctness boundary.  replace_block_between_manual_anchors
\* called without an end anchor (and without a match_fn), the start anchor
\* at body element s: the block ends at the first paragraph after s that has
\* bold, all-caps or an explicit font size on a run; exactly the elements
\* strictly between s and that paragraph are removed and that paragraph is
\* kept; when there is no such paragraph every block element after s is
\* removed.
C19_VisualBoundary ==
    (/\ Called("replace_block_between_manual_anchors")
     /\ result.status = "ok"
     /\ call.end_text = <<>>
     /\ ~call.fn.on)
        => LET s == result.start
               V == {i \in (s + 1)..(Len(before.body) - 1) :
                        /\ before.body[i + 1].kind = "p"
                        /\ before.body[i + 1].fmt \in {"bold", "caps", "size"}}
               b == CHOOSE i \in V : \A j \in V : i <= j
               new == NewParas(call.new, result.style)
           IN  IF V # {}
               THEN /\ disk.body = SubSeq(before.body, 1, s + 1) \o new
                                   \o SubSeq(before.body, b + 1, Len(before.body))
                    /\ result.removed = b - s - 1
               ELSE Blocks(disk.body) = Blocks(SubSeq(before.body, 1, s + 1)) \o new

\* C20: empty block when the start is last.  When the element resolved as
\* the start (the header of replace_paragraph_block_below_header, the start
\* anchor of replace_block_between_manual_anchors) is the last block-level
\* element of the body and the style of the new paragraphs is one the
\* document defines, the call succeeds, reports a removed count of 0 and
\* leaves the body as it was but for the new paragraphs, placed directly
\* after the start element: nothing that is not a paragraph or table between
\* start and end is removed.
C20_EmptyBlockWhenStartLast ==
    /\ (/\ Called("replace_block_between_manual_anchors")
        /\ result.start >= 0
        /\ \A i \in (result.start + 2)..Len(before.body) : ~IsBlock(before.body[i])
        /\ (call.new = <<>> \/ StyleKnown(result.style)))
         => /\ result.status = "ok"
            /\ result.removed = 0
            /\ disk.body = SubSeq(before.body, 1, result.start + 1)
                           \o NewParas(call.new, result.style)
                           \o SubSeq(before.body, result.start + 2, Len(before.body))
    /\ (/\ Called("replace_paragraph_block_below_header")
        /\ result.start >= 0
        /\ \A i \in (ParaPos(before.body, result.start) + 1)..Len(before.body) :
               ~IsBlock(before.body[i])
        /\ (call.new = <<>> \/ StyleKnown(result.style)))
         => LET p == ParaPos(before.body, result.start)
            IN  /\ result.status = "ok"
                /\ result.removed = 0
                /\ disk.body = SubSeq(before.body, 1, p)
                               \o NewParas(call.new, result.style)
                               \o SubSeq(before.body, p + 1, Len(before.body))

-----------------------------------------------------------------------------
(* Spellings of one text: the resolvers called with queries, and on          *)
(* documents, that differ in white space, no-break spaces and letter case    *)

MaxMatchLen == 3

tXnS == <<"x", NBSP, "s">>                 \* a no-break space for the space
tX2S == <<"x", " ", " ", "s">>             \* the space repeated
tPadXS == <<" ", "x", " ", "s", " ">>      \* leading and trailing space
tPad2 == <<" ", "x", " ", " ", "s">>       \* leading space, the space repeated
tXSU == <<"X", " ", "S">>                  \* capital letters
tCXnS == <<"c", " ", "x", NBSP, "s">>      \* holds "x s" once normalized

\* the body elements of the documents the spellings are resolved in
MatchElems ==
    {Para(tXS, "Heading 1", "plain"), Para(tXnS, "Heading 1", "plain"),
     Para(tPad2, "Normal", "plain"), Para(tXSU, "Heading 1", "plain"),
     Para(tCXnS, "Heading 1", "plain"), Para(tC, "Normal", "plain")}

MatchQueries == {tXS, tXnS, tX2S, tPadXS, tXSU}

HeaderSpelled ==
    /\ pc = "idle"
    /\ \E header_text \in MatchQueries, new \in NewLists, detached \in {"TypeError", "sibling"} :
        Do([op |-> "replace_paragraph_block_below_header", header_text |-> header_text,
            new |-> new, style |-> "", detached |-> detached],
           replace_paragraph_block_below_header(disk, header_text, new, "", detached))

AnchorsSpelled ==
    /\ pc = "idle"
    /\ \E start_text \in MatchQueries, end_text \in MatchQueries \cup {tEmpty}, new \in NewLists :
        Do([op |-> "replace_block_between_manual_anchors", start_text |-> start_text,
            end_text |-> end_text, new |-> new, fn |-> NoMatchFn, style |-> ""],
           replace_block_between_manual_anchors(disk, start_text, new, end_text, NoMatchFn, ""))

SectionSpelled ==
    /\ pc = "idle"
    /\ \E heading_text \in MatchQueries, include_heading \in BOOLEAN :
        Do([op |-> "get_section_paragraphs", heading_text |-> heading_text,
            include_heading |-> include_heading],
           get_section_paragraphs(disk, heading_text, include_heading))

InitMatch == InitWith(MatchElems, MaxMatchLen)

NextMatch ==
    \/ HeaderSpelled
    \/ AnchorsSpelled
    \/ SectionSpelled

SpecMatch == InitMatch /\ [][NextMatch]_vars

\* the texts that are "x s" but for white space and no-break spaces, and
\* those that hold it
SpacedForms == {tXS, tXnS, tX2S, tPadXS, tPad2}
HoldingForms == SpacedForms \cup {tCXnS}

\* the same with capital letters allowed
CasedForms == SpacedForms \cup {tXSU}
CasedHoldingForms == HoldingForms \cup {tXSU}

\* what each resolver is to answer for a query of the set `forms`, the
\* texts of `holding` being those that contain it: the start anchor, the end
\* anchor, the header of replace_paragraph_block_below_header and the
\* heading of get_section_paragraphs
ResolvesByForm(forms, holding) ==
    /\ (Called("replace_block_between_manual_anchors") /\ before.state = "ok"
        /\ call.start_text \in forms)
         => ExactFirst(result.start,
                       {i \in ParaElems(0) : before.body[i + 1].text \in forms},
                       {i \in ParaElems(0) : before.body[i + 1].text \in holding})
    /\ (Called("replace_block_between_manual_anchors") /\ before.state = "ok"
        /\ result.start >= 0 /\ call.end_text \in forms)
         => ExactFirst(result.end,
                       {i \in ParaElems(result.start + 1) : before.body[i + 1].text \in forms},
                       {i \in ParaElems(result.start + 1) : before.body[i + 1].text \in holding})
    /\ (Called("replace_paragraph_block_below_header") /\ before.state = "ok"
        /\ call.header_text \in forms)
         => ExactFirst(result.start,
                       {k \in PIdx : ParasBefore[k + 1].text \in forms},
                       {k \in PIdx : /\ IsHeadingStyle(ParasBefore[k + 1].style)
                                     /\ ParasBefore[k + 1].text \in holding})
    /\ (Called("get_section_paragraphs") /\ before.state = "ok"
        /\ call.heading_text \in forms)
         => ExactFirst(result.start,
                       {k \in PIdx : /\ StartsWithHeading(ParasBefore[k + 1].style)
                                     /\ ParasBefore[k + 1].text \in forms},
                       {k \in PIdx : /\ StartsWithHeading(ParasBefore[k + 1].style)
                                     /\ ParasBefore[k + 1].text \in holding})

\* C13: normalization-invariant resolution.  Queries that differ only by a
\* no-break space for a space, by repeated white space or by leading and
\* trailing white space resolve to the same element, and so they do when
\* the variation is in the text of the document: in a document without
\* capital letters every such spelling of "x s" resolves, in each resolver,
\* to the first eligible paragraph spelled in any of these ways, else to the
\* first that holds one.  All the spellings normalize to "x s" and
\* normalizing twice changes nothing.
C13_NormalizationInvariant ==
    /\ (pc = "done" /\ \A k \in PIdx : ParasBefore[k + 1].text # tXSU)
         => ResolvesByForm(SpacedForms, HoldingForms)
    /\ \A q \in SpacedForms : NormalizeText(q) = tXS
    /\ \A q \in HoldingForms \cup MatchQueries :
           NormalizeText(NormalizeText(q)) = NormalizeText(q)

\* the query has a no-break space and a padded, doubled-space paragraph of
\* the document comes first: that paragraph is the start anchor
C13_Witness ==
    /\ Called("replace_block_between_manual_anchors")
    /\ call.start_text = tXnS
    /\ Len(before.body) >= 3
    /\ before.body[1] = Para(tPad2, "Normal", "plain")
    /\ before.body[2] = Para(tXS, "Heading 1", "plain")
    /\ result.start = 0
    /\ result.status = "ok"

\* C14: header and anchor matching is case-insensitive.  In
\* replace_paragraph_block_below_header, replace_block_between_manual_anchors
\* (start and end anchor) and get_section_paragraphs a query that differs
\* from the text of an element only in letter case resolves as the
\* identically cased query does, in the exact and in the contains pass.
C14_CaseInsensitive ==
    pc = "done" => ResolvesByForm(CasedForms, CasedHoldingForms)

-----------------------------------------------------------------------------
(* _replace_in_paragraph: the replacement loop over the runs of a paragraph *)

MaxRuns == 3        \* runs of a paragraph
MaxTextLen == 6     \* characters a paragraph may grow to
MaxCount == 4       \* iterations of the loop followed

\* para.text: the run texts joined
RECURSIVE ParaText(_)
ParaText(runs) == IF runs = <<>> THEN <<>> ELSE Head(runs) \o ParaText(Tail(runs))

\* full_text.find(old_text): the index of the first occurrence, -1 for none
Find(text, old) ==
    FirstOf({i \in 0..(Len(text) - Len(old)) : SubSeq(text, i + 1, i + Len(old)) = old})

\* char_map: for every character of every run the pair (run index, offset in
\* the run), both from 0; an empty run adds nothing
RECURSIVE CharMapFrom(_, _)
CharMapFrom(runs, ri) ==
    IF ri > Len(runs) THEN <<>>
    ELSE [ci \in 1..Len(runs[ri]) |-> <<ri - 1, ci - 1>>] \o CharMapFrom(runs, ri + 1)

CharMap(runs) == CharMapFrom(runs, 1)

\* the loop leaves by break: no runs, or the match ends past the map
BreaksOut(runs, old) ==
    \/ runs = <<>>
    \/ Find(ParaText(runs), old) + Len(old) > Len(CharMap(runs))

\* a faulty variant of one iteration: the runs between the first and the last
\* spanned run keep their text
ReplaceOnceKeepMiddle(runs, old, new) ==
    LET start == Find(ParaText(runs), old)
        end == start + Len(old)
        char_map == CharMap(runs)
        start_ri == char_map[start + 1][1]
        start_ci == char_map[start + 1][2]
        end_ri == char_map[end][1]
        end_ci == char_map[end][2]
    IN  IF start_ri = end_ri
        THEN [runs EXCEPT ![start_ri + 1] =
                 SubSeq(@, 1, start_ci) \o new \o SubSeq(@, end_ci + 2, Len(@))]
        ELSE [i \in DOMAIN runs |->
                 IF i = start_ri + 1 THEN SubSeq(runs[i], 1, start_ci) \o new
                 ELSE IF i = end_ri + 1 THEN SubSeq(runs[i], end_ci + 2, Len(runs[i]))
                 ELSE runs[i]]

\* one iteration of the loop on a paragraph that holds old_text: the runs
\* after it
ReplaceOnce(runs, old, new) ==
    LET start == Find(ParaText(runs), old)
        end == start + Len(old)
        char_map == CharMap(runs)
        start_ri == char_map[start + 1][1]
        start_ci == char_map[start + 1][2]
        end_ri == char_map[end][1]
        end_ci == char_map[end][2]
    IN  IF start_ri = end_ri
        THEN [runs EXCEPT ![start_ri + 1] =
                 SubSeq(@, 1, start_ci) \o new \o SubSeq(@, end_ci + 2, Len(@))]
        ELSE [i \in DOMAIN runs |->
                 IF i = start_ri + 1 THEN SubSeq(runs[i], 1, start_ci) \o new
                 ELSE IF start_ri + 1 < i /\ i < end_ri + 1 THEN <<>>
                 ELSE IF i = end_ri + 1 THEN SubSeq(runs[i], end_ci + 2, Len(runs[i]))
                 ELSE runs[i]]

\* the run texts, the texts searched for and the replacement texts
RunTexts == {<<>>, <<"s">>, <<"x">>, <<"s", "x">>}
RunLists == UNION {[1..n -> RunTexts] : n \in 0..MaxRuns}
OldTexts == {<<"s">>, <<"s", "x">>, <<"x", "s">>, <<"s", "x", "s">>}
NewTexts == {<<>>, <<"n">>, <<"s">>, <<"s", "x">>, <<"n", "s", "n">>}

\* _replace_in_paragraph(para, old_text, new_text) is called: count = 0
ReplaceInParagraph ==
    /\ pc = "idle"
    /\ \E runs \in RunLists, old \in OldTexts, new \in NewTexts :
        /\ mem' = [runs |-> runs, prev |-> runs, count |-> 0]
        /\ call' = [op |-> "_replace_in_paragraph", old |-> old, new |-> new]
    /\ pc' = "loop"
    /\ UNCHANGED <<disk, before, result>>

\* one iteration of `while old_text in para.text`
ReplaceStep ==
    /\ pc = "loop"
    /\ Contains(ParaText(mem.runs), call.old)
    /\ ~BreaksOut(mem.runs, call.old)
    /\ mem.count < MaxCount
    /\ LET runs == ReplaceOnce(mem.runs, call.old, call.new)
       IN  /\ Len(ParaText(runs)) <= MaxTextLen
           /\ mem' = [runs |-> runs, prev |-> mem.runs, count |-> mem.count + 1]
    /\ UNCHANGED <<pc, disk, before, call, result>>

\* the loop ends (its condition is false, or a break) and count is returned
ReplaceReturn ==
    /\ pc = "loop"
    /\ \/ ~Contains(ParaText(mem.runs), call.old)
       \/ BreaksOut(mem.runs, call.old)
    /\ pc' = "done"
    /\ result' = [Ok("replaced") EXCEPT !.data = [count |-> mem.count]]
    /\ UNCHANGED <<disk, before, call, mem>>

InitReplace ==
    /\ pc = "idle"
    /\ disk = Missing
    /\ before = Missing
    /\ call = NoCall
    /\ result = NoResult
    /\ mem = NoMem

NextReplace ==
    \/ ReplaceInParagraph
    \/ ReplaceStep
    \/ ReplaceReturn

SpecReplace == InitReplace /\ [][NextReplace]_vars

\* the number of characters in the runs before run r (r counts from 1)
RECURSIVE CharsBefore(_, _)
CharsBefore(rs, r) == IF r <= 1 THEN 0 ELSE CharsBefore(rs, r - 1) + Len(rs[r - 1])

\* the run that holds character p of the joined text (p counts from 0)
RunHolding(rs, p) ==
    CHOOSE r \in DOMAIN rs : CharsBefore(rs, r) <= p /\ p < CharsBefore(rs, r) + Len(rs[r])

\* a replacement step has been made: mem.prev are the runs before the last one
Stepped == pc \in {"loop", "done"} /\ mem.count > 0

\* C16: one cross-run replacement step.  The run texts before the step join
\* to T, which holds old (not empty) first at [m, m + len(old)).  After the
\* step the run texts join to T[0..m) ++ new ++ T[m+len(old)..], the number
\* of runs is the same and the runs outside the spanned ones are unchanged;
\* when the match spans several runs the first spanned run holds its prefix
\* and all of new, the runs in between are empty and the last spanned run
\* holds only its suffix after the match.
C16_CrossRunStep ==
    Stepped
        => LET P == mem.prev
               R == mem.runs
               T == ParaText(P)
               old == call.old
               at == {i \in 0..(Len(T) - Len(old)) : SubSeq(T, i + 1, i + Len(old)) = old}
               m == CHOOSE i \in at : \A j \in at : i <= j
               a == RunHolding(P, m)
               b == RunHolding(P, m + Len(old) - 1)
               prefix == SubSeq(P[a], 1, m - CharsBefore(P, a))
               suffix == SubSeq(P[b], m + Len(old) - CharsBefore(P, b) + 1, Len(P[b]))
           IN  /\ at # {}
               /\ ParaText(R) = SubSeq(T, 1, m) \o call.new
                                \o SubSeq(T, m + Len(old) + 1, Len(T))
               /\ Len(R) = Len(P)
               /\ \A r \in DOMAIN P : (r < a \/ r > b) => R[r] = P[r]
               /\ a = b => R[a] = prefix \o call.new \o suffix
               /\ a < b => /\ R[a] = prefix \o call.new
                           /\ \A r \in (a + 1)..(b - 1) : R[r] = <<>>
                           /\ R[b] = suffix

\* "sxs" matched across three runs, the middle one emptied
C16_Witness ==
    /\ Stepped
    /\ mem.count = 1
    /\ mem.prev = <<<<"s">>, <<"x">>, <<"s", "x">>>>
    /\ call.old = <<"s", "x", "s">>
    /\ call.new = <<"n">>
    /\ mem.runs = <<<<"n">>, <<>>, <<"x">>>>

\* C17: the replacement loop terminates and exhausts the occurrences, for
\* every paragraph and every non-empty old, new containing old included.  A
\* loop whose next iteration depends on the runs alone cannot end once an
\* iteration leaves the runs as they were, so no iteration does; and on
\* return the paragraph holds no occurrence of old and the count returned is
\* the number of iterations made.
C17_LoopTerminates ==
    /\ Stepped => mem.runs # mem.prev
    /\ (pc = "done" /\ call.op = "_replace_in_paragraph")
         => /\ ~Contains(ParaText(mem.runs), call.old)
            /\ result.data.count = mem.count

-----------------------------------------------------------------------------
(* Insert near a target, and replace_paragraph_text *)

\* a sequence without its element at index k (k counts from 0)
Without(seq, k) == SubSeq(seq, 1, k) \o SubSeq(seq, k + 2, Len(seq))

InsertedOne ==
    /\ pc = "done"
    /\ call.op \in {"insert_header_near_text", "insert_line_or_paragraph_near_text"}
    /\ result.status = "ok"

\* C21: insert near a target.  When insert_header_near_text or
\* insert_line_or_paragraph_near_text succeeds with target paragraph t,
\* exactly one paragraph has been added, immediately before t for 'before'
\* and immediately after t for 'after'; every paragraph and every other
\* element that was there keeps its text, style, run formatting and order;
\* the new paragraph has the text given and the explicit style when one is
\* given, else the style of the target; and copy_style_from_index changes
\* nothing but the run formatting of the new paragraph.
C21_InsertNearTarget ==
    InsertedOne
        => LET t == result.anchor
               n == IF call.position = "before" THEN t ELSE t + 1
               tpos == ParaPos(before.body, t)
               npos == IF call.position = "before" THEN tpos ELSE tpos + 1
           IN  /\ Len(ParasAfter) = Len(ParasBefore) + 1
               /\ Without(ParasAfter, n) = ParasBefore
               /\ Len(disk.body) = Len(before.body) + 1
               /\ Without(disk.body, npos - 1) = before.body
               /\ disk.body[npos] = ParasAfter[n + 1]
               /\ ParasAfter[n + 1].text = call.text
               /\ ParasAfter[n + 1].style =
                      (IF call.style # "" THEN call.style ELSE ParasBefore[t + 1].style)
               /\ (call.op = "insert_header_near_text" => ParasAfter[n + 1].fmt = "plain")

\* a line inserted before a heading found by text: it takes the heading's
\* style and the bold of the first paragraph's run
C21_Witness ==
    /\ InsertedOne
    /\ call.op = "insert_line_or_paragraph_near_text"
    /\ ~call.byIndex
    /\ call.position = "before"
    /\ call.style = ""
    /\ call.copy = 0
    /\ result.anchor = 1
    /\ ParasBefore[1].fmt = "bold"
    /\ ParasBefore[2].style = "Heading 1"
    /\ ParasAfter[2] = Para(tN, "Heading 1", "bold")
    /\ ParasAfter[3] = ParasBefore[2]

\* C22: replace_paragraph_text with a valid index i succeeds; the number of
\* paragraphs is unchanged, every paragraph other than i and every other
\* body element is as it was, paragraph i's text is new_text (parse_markdown
\* false), and its style is the one it had when preserve_style is true and
\* 'Normal' when preserve_style is false.
C22_ReplaceParagraphText ==
    (/\ Called("replace_paragraph_text")
     /\ before.state = "ok"
     /\ 0 <= call.index
     /\ call.index < Len(ParasBefore))
        => LET i == call.index
               pos == ParaPos(before.body, i)
           IN  /\ result.status = "ok"
               /\ Len(ParasAfter) = Len(ParasBefore)
               /\ Len(disk.body) = Len(before.body)
               /\ \A j \in DOMAIN before.body : j # pos => disk.body[j] = before.body[j]
               /\ disk.body[pos].kind = "p"
               /\ (~call.parse_markdown => ParasAfter[i + 1].text = call.new_text)
               /\ (call.preserve => ParasAfter[i + 1].style = ParasBefore[i + 1].style)
               /\ (~call.preserve => ParasAfter[i + 1].style = "Normal")

\* a heading, second of three paragraphs, replaced without preserve_style
C22_Witness ==
    /\ Called("replace_paragraph_text")
    /\ result.status = "ok"
    /\ call.index = 1
    /\ ~call.preserve
    /\ ~call.parse_markdown
    /\ Len(ParasBefore) = 3
    /\ ParasBefore[2] = Para(tS, "Heading 1", "plain")
    /\ ParasAfter[2] = Para(tN, "Normal", "plain")
    /\ ParasAfter[1] = ParasBefore[1]
    /\ ParasAfter[3] = ParasBefore[3]

-----------------------------------------------------------------------------
(* find_text *)

\* the longest body (without the section properties) a search starts from
MaxFindLen == 2

\* the number of characters of a paragraph an occurrence quotes
ContextLimit == 100

\* a table of one row and one cell, whose one paragraph has the text and the
\* style given
TableWith(text, style) == [Tbl EXCEPT !.text = text, !.style = style]

\* doc.tables: the w:tbl children of the body, in order
IsTable(el) == el.kind = "tbl"
Tables(body) == SelectSeq(body, IsTable)

\* para.style.name if para.style else "Normal"
StyleName(el) == IF el.style = "" THEN "Normal" ELSE el.style

\* the elements of a finite set of numbers in ascending order
RECURSIVE Ascending(_)
Ascending(S) ==
    IF S = {} THEN <<>>
    ELSE LET m == CHOOSE i \in S : \A j \in S : i <= j
         IN  <<m>> \o Ascending(S \ {m})

\* str.split(): the maximal pieces without white space
RECURSIVE Split(_)
Split(s) ==
    LET t == DropSpaces(s)
    IN  IF t = <<>> THEN <<>>
        ELSE LET stops == {i \in DOMAIN t : IsSpace(t[i])}
                 n == IF stops = {} THEN Len(t)
                      ELSE (CHOOSE i \in stops : \A j \in stops : i <= j) - 1
             IN  <<SubSeq(t, 1, n)>> \o Split(SubSeq(t, n + 1, Len(t)))

\* the substring loop: pos = para_text.find(search_text, start_pos) until
\* it is -1, with start_pos = pos + len(search_text) after each hit
RECURSIVE SubstringPositions(_, _, _)
SubstringPositions(para_text, search_text, start_pos) ==
    LET pos == FirstOf({i \in start_pos..(Len(para_text) - Len(search_text)) :
                           SubSeq(para_text, i + 1, i + Len(search_text)) = search_text})
    IN  IF pos = -1 THEN <<>>
        ELSE <<pos>> \o SubstringPositions(para_text, search_text, pos + Len(search_text))

\* the whole-word loop: the indices of the words equal to search_text
WordPositions(para_text, search_text) ==
    LET words == Split(para_text)
    IN  Ascending({i \in 0..(Len(words) - 1) : words[i + 1] = search_text})

\* the positions reported for one paragraph
OccurrencePositions(text, text_to_find, match_case, whole_word) ==
    LET para_text == IF match_case THEN text ELSE Lower(text)
        search_text == IF match_case THEN text_to_find ELSE Lower(text_to_find)
    IN  IF whole_word THEN WordPositions(para_text, search_text)
        ELSE SubstringPositions(para_text, search_text, 0)

\* a faulty variant of the quoted context: the mark of a cut is missing
ContextNoEllipsis(text) ==
    IF Len(text) > ContextLimit THEN SubSeq(text, 1, ContextLimit) ELSE text

\* para.text[:100] + ("..." if len(para.text) > 100 else "")
Context(text) ==
    IF Len(text) > ContextLimit
    THEN SubSeq(text, 1, ContextLimit) \o <<".", ".", ".">>
    ELSE text

\* the occurrences of one body paragraph (i is its index in doc.paragraphs)
ParagraphOccurrences(el, i, text_to_find, match_case, whole_word, include_paragraph_text) ==
    LET ps == OccurrencePositions(el.text, text_to_find, match_case, whole_word)
    IN  [j \in DOMAIN ps |->
            IF include_paragraph_text
            THEN [paragraph_index |-> i, position |-> ps[j],
                  text |-> el.text, style |-> StyleName(el)]
            ELSE [paragraph_index |-> i, position |-> ps[j],
                  context |-> Context(el.text)]]

\* the occurrences of the paragraph in the cell of table table_idx
CellOccurrences(el, table_idx, text_to_find, match_case, whole_word, include_paragraph_text) ==
    LET ps == OccurrencePositions(el.text, text_to_find, match_case, whole_word)
    IN  [j \in DOMAIN ps |->
            IF include_paragraph_text
            THEN [location |-> <<table_idx, 0, 0>>, position |-> ps[j],
                  text |-> el.text, style |-> StyleName(el)]
            ELSE [location |-> <<table_idx, 0, 0>>, position |-> ps[j],
                  context |-> Context(el.text)]]

\* for i, para in enumerate(doc.paragraphs), from index i on
RECURSIVE BodyOccurrences(_, _, _, _, _, _)
BodyOccurrences(paras, i, text_to_find, match_case, whole_word, include_paragraph_text) ==
    IF i >= Len(paras) THEN <<>>
    ELSE ParagraphOccurrences(paras[i + 1], i, text_to_find, match_case, whole_word, include_paragraph_text)
         \o BodyOccurrences(paras, i + 1, text_to_find, match_case, whole_word, include_paragraph_text)

\* for table_idx, table in enumerate(doc.tables), from index table_idx on
RECURSIVE TableOccurrences(_, _, _, _, _, _)
TableOccurrences(tables, table_idx, text_to_find, match_case, whole_word, include_paragraph_text) ==
    IF table_idx >= Len(tables) THEN <<>>
    ELSE CellOccurrences(tables[table_idx + 1], table_idx, text_to_find, match_case, whole_word, include_paragraph_text)
         \o TableOccurrences(tables, table_idx + 1, text_to_find, match_case, whole_word, include_paragraph_text)

\* the returned dictionary; {"error": ...} is a failure
find_text(d, text_to_find, match_case, whole_word, include_paragraph_text) ==
    IF d.state = "missing" THEN Ret(d, Fail("Document does not exist"))
    ELSE IF text_to_find = <<>> THEN Ret(d, Fail("Search text cannot be empty"))
    ELSE IF d.state = "corrupt" THEN Ret(d, Fail("Failed to search for text"))
    ELSE LET occurrences ==
                 BodyOccurrences(Paragraphs(d.body), 0, text_to_find, match_case, whole_word, include_paragraph_text)
                 \o TableOccurrences(Tables(d.body), 0, text_to_find, match_case, whole_word, include_paragraph_text)
         IN  Ret(d, [Ok("found") EXCEPT
                        !.data = [query |-> text_to_find,
                                  match_case |-> match_case,
                                  whole_word |-> whole_word,
                                  occurrences |-> occurrences,
                                  total_count |-> Len(occurrences)]])

\* n characters that are not searched for
Pad(n) == [i \in 1..n |-> "a"]

tSS == <<"s", " ", "s">>
tS100 == <<"S">> \o Pad(99)
tS101 == <<"s">> \o Pad(100)
tS200 == <<"s", " ">> \o Pad(198)

\* the body elements of the documents a search starts from
FindElems ==
    {Para(tS, "Normal", "plain"), Para(tSS, "Normal", "plain"),
     Para(tS100, "Heading 1", "plain"), Para(tS101, "Normal", "plain"),
     Para(tS200, "TOC 1", "plain"), Para(tC, "Normal", "plain"),
     TableWith(tS101, ""), TableWith(tS, "Heading 1")}

FindQueries == {tEmpty, tS, <<"S">>}

FindText ==
    /\ pc = "idle"
    /\ \E text_to_find \in FindQueries, match_case \in BOOLEAN, whole_word \in BOOLEAN, include \in BOOLEAN :
        Do([op |-> "find_text", text_to_find |-> text_to_find,
            match_case |-> match_case, whole_word |-> whole_word,
            include_paragraph_text |-> include],
           find_text(disk, text_to_find, match_case, whole_word, include))

InitFind == InitWith(FindElems, MaxFindLen)

NextFind == FindText

SpecFind == InitFind /\ [][NextFind]_vars

\* the paragraph an occurrence was found in
OccurrenceSource(o) ==
    IF "paragraph_index" \in DOMAIN o
    THEN ParasBefore[o.paragraph_index + 1]
    ELSE Tables(before.body)[o.location[1] + 1]

\* C23: the payload of a find_text occurrence.  With include_paragraph_text
\* false every occurrence has a context and no text field; the context is
\* the first 100 characters of the paragraph followed by '...' (103
\* characters in all) when the paragraph is longer than 100 characters, and
\* the whole text of the paragraph otherwise.  With include_paragraph_text
\* true every occurrence has the full text of the paragraph and its style,
\* and no context field.
C23_OccurrencePayload ==
    (Called("find_text") /\ result.status = "ok")
        => \A k \in DOMAIN result.data.occurrences :
              LET o == result.data.occurrences[k]
                  src == OccurrenceSource(o)
                  T == src.text
              IN  IF call.include_paragraph_text
                  THEN /\ "text" \in DOMAIN o
                       /\ "style" \in DOMAIN o
                       /\ "context" \notin DOMAIN o
                       /\ o.text = T
                       /\ o.style = (IF src.style = "" THEN "Normal" ELSE src.style)
                  ELSE /\ "context" \in DOMAIN o
                       /\ "text" \notin DOMAIN o
                       /\ (Len(T) > 100
                             => /\ Len(o.context) = 103
                                /\ SubSeq(o.context, 1, 100) = SubSeq(T, 1, 100)
                                /\ SubSeq(o.context, 101, 103) = <<".", ".", ".">>)
                       /\ (Len(T) <= 100 => o.context = T)

\* a search that finds 's' in a paragraph of 101 characters and in a table
\* cell of 101 characters
C23_Witness ==
    /\ Called("find_text")
    /\ result.status = "ok"
    /\ ~call.include_paragraph_text
    /\ before.body = <<Para(tS101, "Normal", "plain"), TableWith(tS101, ""), SectPr>>
    /\ result.data.total_count = 2
    /\ result.data.occurrences[1].paragraph_index = 0
    /\ Len(result.data.occurrences[1].context) = 103
    /\ result.data.occurrences[2].location = <<0, 0, 0>>
    /\ Len(result.data.occurrences[2].context) = 103

-----------------------------------------------------------------------------
(* The header block and the anchor block, continued *)

\* C24: header resolution is consistent inside
\* replace_paragraph_block_below_header.  Whenever the operation's own search
\* resolves the header, delete_block_under_header resolves the same
\* paragraph, a document with a TOC-styled paragraph of matching text before
\* the heading included; so after a successful call the paragraphs up to and
\* including the header are as before and the new paragraphs follow the
\* header directly.
C24_HeaderResolutionConsistent ==
    (Called("replace_paragraph_block_below_header") /\ result.start >= 0)
        => /\ result.delstart = result.start
           /\ result.status = "ok"
                => LET h == result.start
                       n == Len(call.new)
                   IN  /\ Len(ParasAfter) >= h + 1 + n
                       /\ SubSeq(ParasAfter, 1, h + 1) = SubSeq(ParasBefore, 1, h + 1)
                       /\ SubSeq(ParasAfter, h + 2, h + 1 + n) = NewParas(call.new, result.style)

\* C25: insert_numbered_list_near_text keeps the order of the items for both
\* positions.  After a successful call with target paragraph t the list
\* items are consecutive paragraphs with the texts list_items[0],
\* list_items[1], ... in that order, immediately after t for 'after' and
\* immediately before t for 'before', and the paragraphs that were there
\* are as before.
C25_ListItemOrder ==
    (Called("insert_numbered_list_near_text") /\ result.status = "ok")
        => LET t == result.anchor
               n == Len(call.items)
               first == IF call.position = "before" THEN t ELSE t + 1
           IN  /\ Len(ParasAfter) = Len(ParasBefore) + n
               /\ \A j \in 1..n : ParasAfter[first + j].text = call.items[j]
               /\ SubSeq(ParasAfter, 1, first) = SubSeq(ParasBefore, 1, first)
               /\ SubSeq(ParasAfter, first + n + 1, Len(ParasAfter))
                      = SubSeq(ParasBefore, first + 1, Len(ParasBefore))

\* C26: the start anchor is resolved again to the same paragraph.  In
\* replace_block_between_manual_anchors, whenever the start anchor was
\* resolved before the deletion (by the exact pass, by the contains pass or
\* by a match_fn of the caller), the search in the reloaded document finds
\* it, at the same body element: the outcome 'not found after deletion' is
\* never reached and the new paragraphs go after no other paragraph.
C26_StartAnchorStable ==
    (Called("replace_block_between_manual_anchors") /\ result.start >= 0)
        => /\ result.msg # "Start anchor not found after deletion"
           /\ result.anchor = result.start

\* C27: delete_block_under_header removes tables as well as paragraphs.
\* After a successful replace_paragraph_block_below_header whose two searches
\* resolve the header at paragraph h, no table that stood after the header
\* and before the next heading- or TOC-styled paragraph (the end of the
\* body when there is none) is left: the tables of the body are those that
\* stood outside the block.
C27_TablesInBlockRemoved ==
    (/\ Called("replace_paragraph_block_below_header")
     /\ result.status = "ok"
     /\ result.delstart = result.start)
        => LET h == result.start
               hpos == ParaPos(before.body, h)
               ends == {j \in (hpos + 1)..Len(before.body) :
                           /\ before.body[j].kind = "p"
                           /\ IsBlockEndStyle(before.body[j].style)}
               epos == IF ends = {} THEN Len(before.body) + 1
                       ELSE CHOOSE j \in ends : \A k \in ends : j <= k
               inBlock == {j \in (hpos + 1)..(epos - 1) : before.body[j].kind = "tbl"}
           IN  Len(Tables(disk.body)) = Len(Tables(before.body)) - Cardinality(inBlock)

-----------------------------------------------------------------------------
(* Two calls of delete_paragraph_range, one after the other *)

\* the longest body (without the section properties) the two calls start from
MaxTwiceLen == 3

TwiceElems ==
    {Para(tC, "Normal", "plain"), Para(tS, "Heading 1", "plain"),
     Para(tE, "Normal", "bold"), Tbl}

TwiceIndexes == -1..MaxTwiceLen

\* the first call; mem keeps the file it started from, its arguments and
\* what it returned
DeleteFirst ==
    /\ pc = "idle"
    /\ \E start \in TwiceIndexes, end \in TwiceIndexes :
        LET r == delete_paragraph_range(disk, start, end)
        IN  /\ pc' = "between"
            /\ before' = disk
            /\ call' = [op |-> "delete_paragraph_range", start |-> start, end |-> end]
            /\ disk' = r.disk
            /\ result' = r.result
            /\ mem' = [orig |-> disk, start |-> start, end |-> end, result |-> r.result]

\* the second call, on the file the first one left
DeleteSecond ==
    /\ pc = "between"
    /\ \E start \in TwiceIndexes, end \in TwiceIndexes :
        Do([op |-> "delete_paragraph_range", start |-> start, end |-> end],
           delete_paragraph_range(disk, start, end))

InitTwice == InitWith(TwiceElems, MaxTwiceLen)

NextTwice == DeleteFirst \/ DeleteSecond

SpecTwice == InitTwice /\ [][NextTwice]_vars

\* the two calls were delete_paragraph_range(c, d) and then
\* delete_paragraph_range(a, b), with 0 <= a <= b < c <= d < the number of
\* paragraphs of the original document
DeletedHighThenLow ==
    /\ pc = "done"
    /\ call.op = "delete_paragraph_range"
    /\ "orig" \in DOMAIN mem
    /\ mem.orig.state = "ok"
    /\ 0 <= call.start
    /\ call.start <= call.end
    /\ call.end < mem.start
    /\ mem.start <= mem.end
    /\ mem.end < NumParas(mem.orig.body)

\* the elements of a body that are not paragraphs at an index in gone
RECURSIVE KeepOutside(_, _, _)
KeepOutside(body, k, gone) ==
    IF body = <<>> THEN <<>>
    ELSE IF Head(body).kind # "p" THEN <<Head(body)>> \o KeepOutside(Tail(body), k, gone)
    ELSE IF k \in gone THEN KeepOutside(Tail(body), k + 1, gone)
    ELSE <<Head(body)>> \o KeepOutside(Tail(body), k + 1, gone)

\* C28: range deletions made from higher to lower indices need no index
\* adjustment.  For two disjoint valid ranges [a, b] and [c, d] with b < c
\* in the original document, delete_paragraph_range(c, d) followed by
\* delete_paragraph_range(a, b), both with the original indices, both
\* succeed and leave exactly the original paragraphs whose indices lie
\* outside both ranges, in their original order (and every other element of
\* the body).
C28_HighToLowDeletes ==
    DeletedHighThenLow
        => /\ mem.result.status = "ok"
           /\ result.status = "ok"
           /\ disk.body = KeepOutside(mem.orig.body, 0,
                                      (call.start..call.end) \cup (mem.start..mem.end))

\* three different paragraphs, the last deleted first and the first last
C28_Witness ==
    /\ DeletedHighThenLow
    /\ mem.orig.body = <<Para(tC, "Normal", "plain"), Para(tS, "Heading 1", "plain"),
                         Para(tE, "Normal", "bold"), SectPr>>
    /\ mem.start = 2
    /\ mem.end = 2
    /\ call.start = 0
    /\ call.end = 0
    /\ disk.body = <<Para(tS, "Heading 1", "plain"), SectPr>>

-----------------------------------------------------------------------------
(* find_and_replace_text *)

\* the most paragraphs in the body of the document searched
MaxSearchLen == 2

\* para.style.name.startswith("TOC"), letter case as written
StartsWithTOC(name) == name \in {"TOC 1"}

\* a paragraph in memory: its runs, its style, the number n of replacement
\* steps made in it so far and its runs before the last of them
RunPara(runs, style) == [runs |-> runs, style |-> style, n |-> 0, prev |-> runs]

SearchParas ==
    {RunPara(runs, style) :
        runs \in {<<tS>>, <<<<"x">>, tS>>, <<<<"x", "s">>, <<"x">>>>},
        style \in {"Normal", "TOC 1", "toc 1"}}

\* the paragraphs in the order the function visits them: doc.paragraphs,
\* then the paragraphs of the cells of doc.tables
SearchDocs ==
    {body \o cells :
        body \in UNION {[1..n -> SearchParas] : n \in 0..MaxSearchLen},
        cells \in UNION {[1..n -> SearchParas] : n \in 0..1}}

\* the call starts: count = 0, the first paragraph is next (mem.k counts
\* from 1)
FindAndReplaceText ==
    /\ pc = "idle"
    /\ \E doc \in SearchDocs, old \in {tS, <<"s", "x">>}, new \in {tEmpty, tN, tS, <<"n", "s">>} :
        /\ pc' = "scan"
        /\ call' = [op |-> "find_and_replace_text", old |-> old, new |-> new]
        /\ mem' = [paras |-> doc, orig |-> doc, k |-> 1, count |-> 0]
    /\ UNCHANGED <<disk, before, result>>

\* a TOC paragraph, or one without old_text: on to the next
ScanSkip ==
    /\ pc = "scan"
    /\ mem.k <= Len(mem.paras)
    /\ \/ StartsWithTOC(mem.paras[mem.k].style)
       \/ ~Contains(ParaText(mem.paras[mem.k].runs), call.old)
    /\ mem' = [mem EXCEPT !.k = mem.k + 1]
    /\ UNCHANGED <<pc, disk, before, call, result>>

\* if old_text in para.text: _replace_in_paragraph is entered
ScanEnter ==
    /\ pc = "scan"
    /\ mem.k <= Len(mem.paras)
    /\ ~StartsWithTOC(mem.paras[mem.k].style)
    /\ Contains(ParaText(mem.paras[mem.k].runs), call.old)
    /\ pc' = "replace"
    /\ UNCHANGED <<disk, before, call, result, mem>>

\* one iteration of the loop of _replace_in_paragraph on the paragraph
ScanReplaceStep ==
    /\ pc = "replace"
    /\ LET p == mem.paras[mem.k]
           runs == ReplaceOnce(p.runs, call.old, call.new)
       IN  /\ Contains(ParaText(p.runs), call.old)
           /\ ~BreaksOut(p.runs, call.old)
           /\ p.n < MaxCount
           /\ Len(ParaText(runs)) <= MaxTextLen
           /\ mem' = [mem EXCEPT !.paras[mem.k] =
                         [p EXCEPT !.runs = runs, !.prev = p.runs, !.n = p.n + 1]]
    /\ UNCHANGED <<pc, disk, before, call, result>>

\* the loop ends: count += its result, on to the next paragraph
ScanReplaceReturn ==
    /\ pc = "replace"
    /\ LET p == mem.paras[mem.k]
       IN  /\ \/ ~Contains(ParaText(p.runs), call.old)
              \/ BreaksOut(p.runs, call.old)
           /\ mem' = [mem EXCEPT !.count = mem.count + p.n, !.k = mem.k + 1]
    /\ pc' = "scan"
    /\ UNCHANGED <<disk, before, call, result>>

\* return count
ScanReturn ==
    /\ pc = "scan"
    /\ mem.k > Len(mem.paras)
    /\ pc' = "done"
    /\ result' = [Ok("replaced") EXCEPT !.data = [count |-> mem.count]]
    /\ UNCHANGED <<disk, before, call, mem>>

InitSearch ==
    /\ pc = "idle"
    /\ disk = Missing
    /\ before = Missing
    /\ call = NoCall
    /\ result = NoResult
    /\ mem = NoMem

NextSearch ==
    \/ FindAndReplaceText
    \/ ScanSkip
    \/ ScanEnter
    \/ ScanReplaceStep
    \/ ScanReplaceReturn
    \/ ScanReturn

SpecSearch == InitSearch /\ [][NextSearch]_vars

\* the sum of the replacement steps made in the paragraphs from index i on
RECURSIVE StepsFrom(_, _)
StepsFrom(paras, i) == IF i > Len(paras) THEN 0 ELSE paras[i].n + StepsFrom(paras, i + 1)

\* C29: find_and_replace_text skips TOC paragraphs everywhere and replaces
\* in all others.  A paragraph whose style name starts with 'TOC', in the
\* body or in a table cell, keeps its run texts and adds nothing to the
\* count, even when its text holds old_text.  Every other paragraph that
\* holds old_text is replaced and counted: the scan gets past it (no
\* iteration in it leaves its runs as they were, which would be repeated
\* without end), and on return it holds no old_text, at least one
\* replacement was made in it, and the count returned is the number of
\* replacements made in all paragraphs.
C29_TocSkippedEverywhere ==
    (pc \in {"scan", "replace", "done"} /\ call.op = "find_and_replace_text")
        => /\ \A k \in DOMAIN mem.paras :
                 mem.paras[k].style \in {"TOC 1"}
                     => mem.paras[k].runs = mem.orig[k].runs /\ mem.paras[k].n = 0
           /\ \A k \in DOMAIN mem.paras :
                 mem.paras[k].n > 0 => mem.paras[k].runs # mem.paras[k].prev
           /\ pc = "done"
                => /\ result.data.count = StepsFrom(mem.paras, 1)
                   /\ \A k \in DOMAIN mem.paras :
                         (/\ mem.paras[k].style \notin {"TOC 1"}
                          /\ Contains(ParaText(mem.orig[k].runs), call.old))
                             => /\ mem.paras[k].n >= 1
                                /\ ~Contains(ParaText(mem.paras[k].runs), call.old)

-----------------------------------------------------------------------------
(* The result of get_section_paragraphs *)

\* C30: get_section_paragraphs returns a self-consistent result.  With the
\* heading resolved at paragraph h, the paragraphs list holds consecutive
\* indices in ascending order, from h when include_heading is true and from
\* h + 1 otherwise, up to the last paragraph of the section, each entry with
\* the text and style of the paragraph at its index; content_start_index and
\* content_end_index are both null (-1) exactly when the section has no
\* content paragraph, and otherwise content_start_index = h + 1 <=
\* content_end_index; a next_heading_index that is not null is the last
\* returned index + 1 (h + 1 for an empty list).
C30_SectionResultConsistent ==
    (Called("get_section_paragraphs") /\ result.status = "ok")
        => LET D == result.data
               h == D.heading_index
               L == D.paragraphs
               next == D.next_heading_index
               first == IF call.include_heading THEN h ELSE h + 1
               last == IF next >= 0 THEN next - 1 ELSE Len(ParasBefore) - 1
               empty == last <= h
           IN  /\ Len(L) = last - first + 1
               /\ \A j \in DOMAIN L :
                     /\ L[j].index = first + j - 1
                     /\ L[j].text = ParasBefore[L[j].index + 1].text
                     /\ L[j].style = ParasBefore[L[j].index + 1].style
               /\ (D.content_start_index = -1) <=> empty
               /\ (D.content_end_index = -1) <=> empty
               /\ ~empty => /\ D.content_start_index = h + 1
                            /\ D.content_start_index <= D.content_end_index
                            /\ D.content_end_index = last
               /\ next >= 0 => next = (IF L = <<>> THEN h + 1 ELSE L[Len(L)].index + 1)

\* a section of one paragraph between two headings, asked for without its
\* heading
C30_Witness ==
    /\ Called("get_section_paragraphs")
    /\ result.status = "ok"
    /\ ~call.include_heading
    /\ ParasBefore = <<Para(tS, "Heading 1", "plain"), Para(tC, "Normal", "plain"),
                       Para(tXS, "Heading 1", "size")>>
    /\ result.data.heading_index = 0
    /\ result.data.next_heading_index = 2
    /\ result.data.content_start_index = 1
    /\ result.data.content_end_index = 1
    /\ Len(result.data.paragraphs) = 1
    /\ result.data.paragraphs[1].index = 1

=============================================================================
